---- MODULE Spec2Model ----
(***************************************************************************)
(* Model of the invoice OCR service: the POST /api/process-invoice        *)
(* handler (api/handler.go), the image preprocessor and text recognizer   *)
(* (internal/ocr) and the extraction orchestrator (internal/ai).          *)
(*                                                                         *)
(* Texts that the code inspects character by character (the AI answer,    *)
(* the base64 image argument) are sequences of one-character strings;     *)
(* names and messages the code only compares or concatenates are strings. *)
(* Byte buffers are sequences of integers 0..255.                         *)
(***************************************************************************)
EXTENDS Integers, Sequences, FiniteSets, TLC

(***************************************************************************)
(* Bounds of the model.                                                    *)
(***************************************************************************)
\* request workers (goroutines) the server runs
NumWorkers == 2
\* longest duration, in clock ticks, of one blocking call
MaxDuration == 1
\* names os.CreateTemp can draw from
NumTempNames == 2

Workers == 1..NumWorkers
Durations == 1..MaxDuration
TempNames == 1..NumTempNames

(***************************************************************************)
(* Program constants.                                                      *)
(***************************************************************************)
MaxUploadSize == 10 * 1024 * 1024
StatusOK == 200
StatusBadRequest == 400
StatusInternalServerError == 500
StatusServiceUnavailable == 503

\* "data:image/jpeg;base64," as the handler prepends it
DataURIPrefix ==
    << "d","a","t","a",":","i","m","a","g","e","/","j","p","e","g",";",
       "b","a","s","e","6","4","," >>

(***************************************************************************)
(* encoding/base64, StdEncoding: the alphabet, and EncodeToString with     *)
(* padding.                                                                *)
(***************************************************************************)
encodeStd ==
    << "A","B","C","D","E","F","G","H","I","J","K","L","M","N","O","P",
       "Q","R","S","T","U","V","W","X","Y","Z","a","b","c","d","e","f",
       "g","h","i","j","k","l","m","n","o","p","q","r","s","t","u","v",
       "w","x","y","z","0","1","2","3","4","5","6","7","8","9","+","/" >>

RECURSIVE EncodeToString(_)
EncodeToString(src) ==
    IF Len(src) = 0 THEN << >>
    ELSE IF Len(src) = 1 THEN
        << encodeStd[(src[1] \div 4) + 1],
           encodeStd[((src[1] % 4) * 16) + 1], "=", "=" >>
    ELSE IF Len(src) = 2 THEN
        << encodeStd[(src[1] \div 4) + 1],
           encodeStd[((src[1] % 4) * 16 + (src[2] \div 16)) + 1],
           encodeStd[((src[2] % 16) * 4) + 1], "=" >>
    ELSE
        << encodeStd[(src[1] \div 4) + 1],
           encodeStd[((src[1] % 4) * 16 + (src[2] \div 16)) + 1],
           encodeStd[((src[2] % 16) * 4 + (src[3] \div 64)) + 1],
           encodeStd[(src[3] % 64) + 1] >>
        \o EncodeToString(SubSeq(src, 4, Len(src)))

(***************************************************************************)
(* Text helpers: package strings and strconv, on character sequences.      *)
(***************************************************************************)
digits == << "0","1","2","3","4","5","6","7","8","9" >>

IsDigit(c) == \E i \in 1..10 : digits[i] = c

DigitVal(c) == (CHOOSE i \in 1..10 : digits[i] = c) - 1

AllDigits(s) == \A i \in 1..Len(s) : IsDigit(s[i])

\* value of a non-empty run of decimal digits
RECURSIVE DigitsVal(_)
DigitsVal(s) ==
    IF Len(s) = 0 THEN 0
    ELSE DigitsVal(SubSeq(s, 1, Len(s) - 1)) * 10 + DigitVal(s[Len(s)])

\* strconv.ParseInt(s, 10, _): an optional sign, then at least one digit
ParseInt(s) ==
    LET signed == Len(s) > 0 /\ s[1] \in {"+", "-"}
        body   == IF signed THEN Tail(s) ELSE s
    IN  IF Len(body) = 0 \/ ~AllDigits(body)
        THEN [ok |-> FALSE, value |-> 0]
        ELSE [ok |-> TRUE,
              value |-> IF signed /\ s[1] = "-" THEN 0 - DigitsVal(body)
                        ELSE DigitsVal(body)]

\* fmt's %s of a character sequence
RECURSIVE StringOf(_)
StringOf(s) ==
    IF Len(s) = 0 THEN ""
    ELSE IF Len(s) = 1 THEN s[1]
    ELSE StringOf(SubSeq(s, 1, Len(s) \div 2))
         \o StringOf(SubSeq(s, (Len(s) \div 2) + 1, Len(s)))

IsSpace(c) == c \in {" ", "\n", "\t", "\r"}

\* strings.TrimSpace
RECURSIVE TrimLeft(_)
TrimLeft(s) ==
    IF Len(s) > 0 /\ IsSpace(s[1]) THEN TrimLeft(Tail(s)) ELSE s

RECURSIVE TrimRight(_)
TrimRight(s) ==
    IF Len(s) > 0 /\ IsSpace(s[Len(s)])
    THEN TrimRight(SubSeq(s, 1, Len(s) - 1)) ELSE s

TrimSpace(s) == TrimRight(TrimLeft(s))

HasPrefix(s, prefix) ==
    Len(s) >= Len(prefix) /\ SubSeq(s, 1, Len(prefix)) = prefix

\* strings.Index, one-based: where old first occurs in s, 0 if nowhere
Index(s, old) ==
    LET starts == {i \in 1..(Len(s) - Len(old) + 1) :
                      SubSeq(s, i, i + Len(old) - 1) = old}
    IN  IF starts = {} THEN 0
        ELSE CHOOSE i \in starts : \A j \in starts : i <= j

\* what follows the first occurrence of old in s, with old removed from it
RECURSIVE RemoveAll(_, _)
removeRest(s, old, i) ==
    SubSeq(s, 1, i - 1) \o RemoveAll(SubSeq(s, i + Len(old), Len(s)), old)

\* strings.ReplaceAll(s, old, ""): non-overlapping matches, left to right
RemoveAll(s, old) ==
    IF Index(s, old) = 0 THEN s ELSE removeRest(s, old, Index(s, old))

\* index of the first character of s that is in set, 0 if none
\* (strings.IndexAny, one-based)
IndexAny(s, set) ==
    IF \E i \in 1..Len(s) : s[i] \in set
    THEN CHOOSE i \in 1..Len(s) :
            s[i] \in set /\ \A j \in 1..(i - 1) : s[j] \notin set
    ELSE 0

RECURSIVE Pow10(_)
Pow10(n) == IF n <= 0 THEN 1 ELSE 10 * Pow10(n - 1)

(***************************************************************************)
(* shopspring/decimal as parseResponse uses it: a decimal is an integer    *)
(* coefficient and a power-of-ten exponent, value * 10^exp.                *)
(***************************************************************************)
DecimalZero == [value |-> 0, exp |-> 0]

\* decimal.NewFromString, the end: the digits read as one integer
decimalOf(expInt, tooManyPoints, scale, parsed) ==
    IF ~expInt.ok \/ tooManyPoints \/ ~parsed.ok
    THEN [ok |-> FALSE, dec |-> DecimalZero]
    ELSE [ok |-> TRUE,
          dec |-> [value |-> parsed.value, exp |-> expInt.value - scale]]

\* decimal.NewFromString, the middle: the point is taken out of the mantissa
\* and the digits after it lower the exponent
fromMantissa(expInt, mantissa, points, pIndex) ==
    IF pIndex = 0
    THEN decimalOf(expInt, FALSE, 0, ParseInt(mantissa))
    ELSE decimalOf(expInt, Cardinality(points) > 1, Len(mantissa) - pIndex,
                   ParseInt(SubSeq(mantissa, 1, pIndex - 1)
                            \o SubSeq(mantissa, pIndex + 1, Len(mantissa))))

withExponent(expInt, mantissa) ==
    fromMantissa(expInt, mantissa,
                 {i \in 1..Len(mantissa) : mantissa[i] = "."},
                 IndexAny(mantissa, {"."}))

\* decimal.NewFromString: an optional E/e exponent, at most one point, and
\* the remaining digits read as one integer
NewFromString(value) ==
    IF IndexAny(value, {"E", "e"}) = 0
    THEN withExponent([ok |-> TRUE, value |-> 0], value)
    ELSE withExponent(
            ParseInt(SubSeq(value, IndexAny(value, {"E", "e"}) + 1, Len(value))),
            SubSeq(value, 1, IndexAny(value, {"E", "e"}) - 1))

\* Decimal.Equal: the two decimals denote the same number
DecimalEqual(a, b) ==
    LET m == IF a.exp < b.exp THEN a.exp ELSE b.exp
    IN  a.value * Pow10(a.exp - m) = b.value * Pow10(b.exp - m)

(***************************************************************************)
(* package time as parseResponse uses it: time.Parse under the three       *)
(* layouts, and the zero time.Time.                                        *)
(***************************************************************************)
ZeroTime ==
    [year |-> 1, month |-> 1, day |-> 1,
     hour |-> 0, min |-> 0, sec |-> 0, offset |-> 0]

NoTime == [ok |-> FALSE, t |-> ZeroTime]

\* the number in the n digits of s starting at i, or -1
NumAt(s, i, n) ==
    IF i + n - 1 <= Len(s) /\ AllDigits(SubSeq(s, i, i + n - 1))
    THEN DigitsVal(SubSeq(s, i, i + n - 1)) ELSE 0 - 1

IsLeap(y) == (y % 4 = 0) /\ ((y % 100 # 0) \/ (y % 400 = 0))

DaysIn(m, y) ==
    IF m = 2 THEN (IF IsLeap(y) THEN 29 ELSE 28)
    ELSE IF m \in {4, 6, 9, 11} THEN 30 ELSE 31

ValidDate(y, m, d) ==
    y >= 0 /\ m \in 1..12 /\ d >= 1 /\ d <= DaysIn(m, y)

\* time.Parse("2006-01-02", s)
ParseISODate(s) ==
    LET y == NumAt(s, 1, 4)
        m == NumAt(s, 6, 2)
        d == NumAt(s, 9, 2)
    IN  IF Len(s) = 10 /\ s[5] = "-" /\ s[8] = "-" /\ ValidDate(y, m, d)
        THEN [ok |-> TRUE,
              t |-> [ZeroTime EXCEPT !.year = y, !.month = m, !.day = d]]
        ELSE NoTime

\* the layout 01/02/2006, month first
ParseDMYDate_MonthFirst(s) ==
    LET m == NumAt(s, 1, 2)
        d == NumAt(s, 4, 2)
        y == NumAt(s, 7, 4)
    IN  IF Len(s) = 10 /\ s[3] = "/" /\ s[6] = "/" /\ ValidDate(y, m, d)
        THEN [ok |-> TRUE,
              t |-> [ZeroTime EXCEPT !.year = y, !.month = m, !.day = d]]
        ELSE NoTime

\* time.Parse("02/01/2006", s)
ParseDMYDate(s) ==
    LET d == NumAt(s, 1, 2)
        m == NumAt(s, 4, 2)
        y == NumAt(s, 7, 4)
    IN  IF Len(s) = 10 /\ s[3] = "/" /\ s[6] = "/" /\ ValidDate(y, m, d)
        THEN [ok |-> TRUE,
              t |-> [ZeroTime EXCEPT !.year = y, !.month = m, !.day = d]]
        ELSE NoTime

\* the zone of an RFC3339 timestamp: "Z", or a sign, hh, ":" and mm;
\* its offset in minutes
ParseZone(z) ==
    IF z = << "Z" >> THEN [ok |-> TRUE, offset |-> 0]
    ELSE IF Len(z) = 6 /\ z[1] \in {"+", "-"} /\ z[4] = ":"
            /\ NumAt(z, 2, 2) \in 0..24 /\ NumAt(z, 5, 2) \in 0..59
         THEN [ok |-> TRUE,
               offset |-> (IF z[1] = "-" THEN 0 - 1 ELSE 1)
                          * (NumAt(z, 2, 2) * 60 + NumAt(z, 5, 2))]
         ELSE [ok |-> FALSE, offset |-> 0]

\* the length of an optional fraction of a second at the head of rest
FractionLen(rest) ==
    IF Len(rest) > 1 /\ rest[1] = "." /\ IsDigit(rest[2])
    THEN 1 + Cardinality({i \in 2..Len(rest) : \A j \in 2..i : IsDigit(rest[j])})
    ELSE 0

\* the clock and zone of an RFC3339 timestamp, c being the place of the
\* first colon
clockOf(s, date, hour, c) ==
    IF Len(s) >= c + 6 /\ date.ok /\ s[c] = ":" /\ s[c + 3] = ":"
       /\ hour \in 0..23 /\ NumAt(s, c + 1, 2) \in 0..59
       /\ NumAt(s, c + 4, 2) \in 0..59
       /\ ParseZone(SubSeq(s, c + 6 + FractionLen(SubSeq(s, c + 6, Len(s))),
                           Len(s))).ok
    THEN [ok |-> TRUE,
          t |-> [date.t EXCEPT
                   !.hour = hour,
                   !.min = NumAt(s, c + 1, 2),
                   !.sec = NumAt(s, c + 4, 2),
                   !.offset = ParseZone(
                       SubSeq(s, c + 6 + FractionLen(SubSeq(s, c + 6, Len(s))),
                              Len(s))).offset]]
    ELSE NoTime

\* time.Parse("2006-01-02T15:04:05Z07:00", s); the hour may have one digit
\* or two, and a fraction of a second may follow the seconds
ParseRFC3339(s) ==
    IF Len(s) < 12 \/ s[11] # "T" THEN NoTime
    ELSE IF NumAt(s, 12, 2) >= 0
         THEN clockOf(s, ParseISODate(SubSeq(s, 1, 10)), NumAt(s, 12, 2), 14)
         ELSE clockOf(s, ParseISODate(SubSeq(s, 1, 10)), NumAt(s, 12, 1), 13)

(***************************************************************************)
(* The provider's answer.  The text is pre \o Render(doc) \o post, where   *)
(* doc is either a JSON object given by its tokens (a field is absent,     *)
(* null, true, false, a number literal, a string or an array) or a body    *)
(* that is not JSON at all.                                                *)
(***************************************************************************)
Absent == [kind |-> "absent", text |-> << >>]
Null == [kind |-> "null", text |-> << >>]
JTrue == [kind |-> "true", text |-> << >>]
JFalse == [kind |-> "false", text |-> << >>]
Str(t) == [kind |-> "string", text |-> t]
Num(t) == [kind |-> "number", text |-> t]
NoArray == [kind |-> "absent", elems |-> << >>]
Arr(es) == [kind |-> "array", elems |-> es]

\* the backquote character (U+0060), which a TLA+ string cannot hold
BQ == "<bq>"

fenceJSON == << BQ,BQ,BQ,"j","s","o","n" >>
fence == << BQ,BQ,BQ >>

RenderVal(v) ==
    CASE v.kind = "string" -> << "\"" >> \o v.text \o << "\"" >>
      [] v.kind = "number" -> v.text
      [] v.kind = "null"   -> << "n","u","l","l" >>
      [] v.kind = "true"   -> << "t","r","u","e" >>
      [] v.kind = "false"  -> << "f","a","l","s","e" >>
      [] OTHER             -> << >>

\* the members of an object, comma separated; absent members are left out
RECURSIVE RenderMembers(_, _)
RenderMembers(keys, vals) ==
    IF Len(keys) = 0 THEN << >>
    ELSE LET rest == RenderMembers(Tail(keys), Tail(vals))
         IN  IF Len(vals[1]) = 0 THEN rest
             ELSE << "\"" >> \o keys[1] \o << "\"", ":" >> \o vals[1]
                  \o (IF Len(rest) = 0 THEN << >> ELSE << "," >> \o rest)

RECURSIVE RenderElems(_)
RenderElems(es) ==
    IF Len(es) = 0 THEN << >>
    ELSE es[1] \o (IF Len(es) = 1 THEN << >>
                   ELSE << "," >> \o RenderElems(Tail(es)))

RenderItem(it) ==
    << "{" >>
    \o RenderMembers(<< << "n","a","m","e" >>, << "a","m","o","u","n","t" >>, << "i","s","T","a","x","e","d" >>, << "q","u","a","n","t","i","t","y" >> >>,
                     << RenderVal(it.name), RenderVal(it.amount),
                        RenderVal(it.isTaxed), RenderVal(it.quantity) >>)
    \o << "}" >>

RenderArr(a, elem(_)) ==
    CASE a.kind = "array" ->
            << "[" >>
            \o RenderElems([i \in 1..Len(a.elems) |-> elem(a.elems[i])])
            \o << "]" >>
      [] a.kind = "null"  -> << "n","u","l","l" >>
      [] OTHER            -> << >>

Render(doc) ==
    IF ~doc.syntax THEN doc.body
    ELSE << "{" >>
         \o RenderMembers(
              << << "v","e","n","d","o","r" >>, << "d","a","t","e" >>, << "t","o","t","a","l" >>, << "t","a","x" >>, << "i","t","e","m","s" >>,
                 << "c","a","t","e","g","o","r","i","e","s" >> >>,
              << RenderVal(doc.vendor), RenderVal(doc.date),
                 RenderVal(doc.total), RenderVal(doc.tax),
                 RenderArr(doc.items, RenderItem),
                 RenderArr(doc.categories, RenderVal) >>)
         \o << "}" >>

ResponseText(response) ==
    response.pre \o Render(response.doc) \o response.post

(***************************************************************************)
(* parseResponse, lines 95-98: the cleaning of the answer.                 *)
(***************************************************************************)
\* StripFences removing the bare fence only
StripFences_OnlyBare(s) == RemoveAll(s, fence)

StripFences(s) == RemoveAll(RemoveAll(s, fenceJSON), fence)

Clean(s) == TrimSpace(StripFences(TrimSpace(s)))

\* A backquote of a JSON text can only stand inside a string token, so on
\* a JSON object the cleaning acts on each string token by itself.
CleanVal(v) == IF v.kind = "string" THEN Str(StripFences(v.text)) ELSE v

(***************************************************************************)
(* encoding/json: json.Unmarshal of the cleaned text into the anonymous    *)
(* struct of parseResponse, field by field.                                *)
(***************************************************************************)
\* the number of consecutive digits of s from position i on
DigitRun(s, i) ==
    Cardinality({k \in i..Len(s) : \A j \in i..k : IsDigit(s[j])})

\* the position after the integer part that starts at i, 0 if there is none
intEnd(s, i) ==
    IF DigitRun(s, i) >= 1 /\ (s[i] = "0" => DigitRun(s, i) = 1)
    THEN i + DigitRun(s, i) ELSE 0

\* the position after an optional fraction at p, 0 if it is malformed
fracEnd(s, p) ==
    IF p = 0 THEN 0
    ELSE IF p <= Len(s) /\ s[p] = "."
         THEN (IF DigitRun(s, p + 1) >= 1 THEN p + 1 + DigitRun(s, p + 1) ELSE 0)
         ELSE p

\* the position after the digits of an exponent at q, 0 if there are none
expDigitsEnd(s, q) == IF DigitRun(s, q) >= 1 THEN q + DigitRun(s, q) ELSE 0

\* the position after an optional exponent at p, 0 if it is malformed
expEnd(s, p) ==
    IF p = 0 THEN 0
    ELSE IF p <= Len(s) /\ s[p] \in {"e", "E"}
         THEN expDigitsEnd(s, IF p + 1 <= Len(s) /\ s[p + 1] \in {"+", "-"}
                              THEN p + 2 ELSE p + 1)
         ELSE p

\* isValidNumber: -? (0 | [1-9][0-9]*) (. [0-9]+)? ([eE] [+-]? [0-9]+)?
IsValidNumber(s) ==
    expEnd(s, fracEnd(s, intEnd(s, IF Len(s) > 0 /\ s[1] = "-" THEN 2 ELSE 1)))
    = Len(s) + 1

typeError == "json: cannot unmarshal value into Go struct field"

\* a string field
DecodeString(v) ==
    CASE v.kind \in {"absent", "null"} -> [err |-> "", val |-> << >>]
      [] v.kind = "string"             -> [err |-> "", val |-> v.text]
      [] OTHER                         -> [err |-> typeError, val |-> << >>]

\* a json.Number field that must be present
DecodeNumber_RequiresField(v) ==
    CASE v.kind = "null"               -> [err |-> "", val |-> << >>]
      [] v.kind = "absent"             -> [err |-> typeError, val |-> << >>]
      [] v.kind = "number"             -> [err |-> "", val |-> v.text]
      [] v.kind = "string" ->
            IF IsValidNumber(v.text) THEN [err |-> "", val |-> v.text]
            ELSE [err |-> "json: invalid number literal, trying to unmarshal into Number",
                  val |-> << >>]
      [] OTHER                         -> [err |-> typeError, val |-> << >>]

\* a json.Number field: a number literal, or a string holding one
DecodeNumber(v) ==
    CASE v.kind \in {"absent", "null"} -> [err |-> "", val |-> << >>]
      [] v.kind = "number"             -> [err |-> "", val |-> v.text]
      [] v.kind = "string" ->
            IF IsValidNumber(v.text) THEN [err |-> "", val |-> v.text]
            ELSE [err |-> "json: invalid number literal, trying to unmarshal into Number",
                  val |-> << >>]
      [] OTHER                         -> [err |-> typeError, val |-> << >>]

\* an int field: a number literal that strconv.ParseInt accepts
DecodeInt(v) ==
    CASE v.kind \in {"absent", "null"} -> [err |-> "", val |-> 0]
      [] v.kind = "number" /\ ParseInt(v.text).ok
                                       -> [err |-> "", val |-> ParseInt(v.text).value]
      [] OTHER                         -> [err |-> typeError, val |-> 0]

\* a bool field
DecodeBool(v) ==
    CASE v.kind \in {"absent", "null"} -> [err |-> "", val |-> FALSE]
      [] v.kind = "true"               -> [err |-> "", val |-> TRUE]
      [] v.kind = "false"              -> [err |-> "", val |-> FALSE]
      [] OTHER                         -> [err |-> typeError, val |-> FALSE]

\* one element of items
DecodeItem(it) ==
    LET name     == DecodeString(CleanVal(it.name))
        amount   == DecodeNumber(CleanVal(it.amount))
        isTaxed  == DecodeBool(it.isTaxed)
        quantity == DecodeInt(CleanVal(it.quantity))
        errs     == {name.err, amount.err, isTaxed.err, quantity.err} \ {""}
    IN  [err |-> IF errs = {} THEN "" ELSE CHOOSE e \in errs : TRUE,
         val |-> [Name |-> name.val, Amount |-> amount.val,
                  IsTaxed |-> isTaxed.val, Quantity |-> quantity.val]]

\* a slice field: nil when the member is absent or null
DecodeSlice(a, elem(_)) ==
    CASE a.kind \in {"absent", "null"} ->
            [err |-> "", val |-> [nil |-> TRUE, elems |-> << >>]]
      [] a.kind = "array" ->
            LET ds   == [i \in 1..Len(a.elems) |-> elem(a.elems[i])]
                errs == {ds[i].err : i \in 1..Len(ds)} \ {""}
            IN  [err |-> IF errs = {} THEN "" ELSE CHOOSE e \in errs : TRUE,
                 val |-> [nil |-> FALSE,
                          elems |-> [i \in 1..Len(ds) |-> ds[i].val]]]
      [] OTHER ->
            [err |-> typeError, val |-> [nil |-> TRUE, elems |-> << >>]]

DecodeCategory(v) == DecodeString(CleanVal(v))

Unmarshal(response) ==
    LET doc        == response.doc
        vendor     == DecodeString(CleanVal(doc.vendor))
        date       == DecodeString(CleanVal(doc.date))
        total      == DecodeNumber(CleanVal(doc.total))
        tax        == DecodeNumber(CleanVal(doc.tax))
        categories == DecodeSlice(doc.categories, DecodeCategory)
        items      == DecodeSlice(doc.items, DecodeItem)
        errs       == {vendor.err, date.err, total.err, tax.err,
                       categories.err, items.err} \ {""}
    IN  IF ~doc.syntax \/ Clean(response.pre) # << >>
           \/ Clean(response.post) # << >>
        THEN [err |-> "invalid character looking for beginning of value",
              raw |-> << >>]
        ELSE [err |-> IF errs = {} THEN "" ELSE CHOOSE e \in errs : TRUE,
              raw |-> [Vendor |-> vendor.val, Date |-> date.val,
                       Total |-> total.val, Tax |-> tax.val,
                       Categories |-> categories.val, Items |-> items.val]]

(***************************************************************************)
(* Extractor.parseResponse.                                                *)
(***************************************************************************)
NoInvoice == [nil |-> TRUE]

DefaultConfidence == [num |-> 85, den |-> 100]

\* the first of two parses that succeeded
orElse(first, second) == IF first.ok THEN first ELSE second

\* parseDate putting 1 January 1970 where no layout parses the field
parseDate_Epoch(rawDate) ==
    IF rawDate = << >> THEN ZeroTime
    ELSE orElse(ParseISODate(rawDate),
                orElse(ParseDMYDate(rawDate),
                       orElse(ParseRFC3339(rawDate),
                              [ok |-> TRUE,
                               t |-> [ZeroTime EXCEPT !.year = 1970]]))).t

\* lines 129-142: the three layouts in turn; the date stays the zero time
\* when the field is empty or no layout parses it
parseDate(rawDate) ==
    IF rawDate = << >> THEN ZeroTime
    ELSE orElse(ParseISODate(rawDate),
                orElse(ParseDMYDate(rawDate), ParseRFC3339(rawDate))).t

\* the decimal of a parse, the zero Decimal when it failed
decimalOr(parsed) == IF parsed.ok THEN parsed.dec ELSE DecimalZero

\* lines 144-158: total and tax
parseAmount(number) ==
    IF number # << >> THEN decimalOr(NewFromString(number)) ELSE DecimalZero

\* lines 160-170: one line item
buildItem(item) ==
    [Name |-> item.Name,
     Amount |-> decimalOr(NewFromString(item.Amount)),
     IsTaxed |-> item.IsTaxed,
     Quantity |-> item.Quantity]

\* buildInvoice taking the confidence of the recognizer when there is a text
buildInvoice_OcrConfidence(u, cleaned, ocrText, now) ==
    IF u.err # ""
    THEN [err |-> "JSON parse error: " \o u.err \o "\nResponse: "
                  \o StringOf(cleaned),
          invoice |-> NoInvoice]
    ELSE [err |-> "",
          invoice |->
            [Vendor |-> u.raw.Vendor,
             Date |-> parseDate(u.raw.Date),
             Total |-> parseAmount(u.raw.Total),
             Tax |-> parseAmount(u.raw.Tax),
             Items |-> [i \in 1..Len(u.raw.Items.elems) |->
                          buildItem(u.raw.Items.elems[i])],
             Categories |-> u.raw.Categories,
             RawText |-> ocrText,
             Confidence |-> IF ocrText = "" THEN DefaultConfidence
                            ELSE [num |-> 95, den |-> 100],
             ProcessedAt |-> now]]

\* buildInvoice keeping the first two categories only
buildInvoice_TopTwoCategories(u, cleaned, ocrText, now) ==
    IF u.err # ""
    THEN [err |-> "JSON parse error: " \o u.err \o "\nResponse: "
                  \o StringOf(cleaned),
          invoice |-> NoInvoice]
    ELSE [err |-> "",
          invoice |->
            [Vendor |-> u.raw.Vendor,
             Date |-> parseDate(u.raw.Date),
             Total |-> parseAmount(u.raw.Total),
             Tax |-> parseAmount(u.raw.Tax),
             Items |-> [i \in 1..Len(u.raw.Items.elems) |->
                          buildItem(u.raw.Items.elems[i])],
             Categories |->
                 [nil   |-> u.raw.Categories.nil,
                  elems |-> IF Len(u.raw.Categories.elems) > 2
                            THEN SubSeq(u.raw.Categories.elems, 1, 2)
                            ELSE u.raw.Categories.elems],
             RawText |-> ocrText,
             Confidence |-> DefaultConfidence,
             ProcessedAt |-> now]]

\* lines 116-172: the error, or the invoice built from the decoded struct
buildInvoice(u, cleaned, ocrText, now) ==
    IF u.err # ""
    THEN [err |-> "JSON parse error: " \o u.err \o "\nResponse: "
                  \o StringOf(cleaned),
          invoice |-> NoInvoice]
    ELSE [err |-> "",
          invoice |->
            [Vendor |-> u.raw.Vendor,
             Date |-> parseDate(u.raw.Date),
             Total |-> parseAmount(u.raw.Total),
             Tax |-> parseAmount(u.raw.Tax),
             Items |-> [i \in 1..Len(u.raw.Items.elems) |->
                          buildItem(u.raw.Items.elems[i])],
             Categories |-> u.raw.Categories,
             RawText |-> ocrText,
             Confidence |-> DefaultConfidence,
             ProcessedAt |-> now]]

parseResponse(response, ocrText, now) ==
    buildInvoice(Unmarshal(response), Clean(ResponseText(response)),
                 ocrText, now)

(***************************************************************************)
(* State.                                                                  *)
(***************************************************************************)
VARIABLES
    config,     \* models.Config, loaded once at startup
    pc,         \* where each worker stands in ProcessInvoice
    req,        \* the request each worker is handling
    loc,        \* the locals of ProcessInvoice and of its callees
    calls,      \* invocations of each component during the request
    log,        \* the stages the request has reached, in order
    response,   \* the HTTP response written for the request
    magickUp,   \* the process-wide ImageMagick environment is initialised
    tempFiles,  \* the invoice-*.jpg files present in the temp directory
    input,      \* an answer handed to parseResponse on its own
    output      \* what parseResponse returned for it

vars ==
    << config, pc, req, loc, calls, log, response, magickUp, tempFiles,
       input, output >>

\* Variables of the request pipeline, and of parseResponse run on its own
pipeVars ==
    << config, pc, req, loc, calls, log, response, magickUp, tempFiles >>

parseVars == << input, output >>

(***************************************************************************)
(* Configuration (models.Config).                                          *)
(***************************************************************************)
\* two sample configurations: a supported default provider with Tesseract,
\* and a misconfigured default provider with EasyOCR scaling
Configs ==
    {[DefaultProvider |-> "gemini", Engine |-> "tesseract",
      Language |-> "eng", OpenAIModel |-> "gpt-4o", GeminiModel |-> "",
      OllamaModel |-> "llama2", Categories |-> << "Food", "Shopping" >>],
     [DefaultProvider |-> "unsupported-cfg", Engine |-> "easyocr",
      Language |-> "eng", OpenAIModel |-> "gpt-4o", GeminiModel |-> "",
      OllamaModel |-> "llama2", Categories |-> << "Food", "Shopping" >>]}

(***************************************************************************)
(* Requests.  A body holds the file and the multipart framing around it,   *)
(* so it is larger than the file.                                          *)
(***************************************************************************)
JPEGBytes == << 255, 216, 255 >>
PNGBytes == << 137, 80, 78, 71 >>

FileSizes == {1, MaxUploadSize - 1, MaxUploadSize, MaxUploadSize + 1}

\* the optional form fields model and language, given together or not
Options == {<< "", "" >>, << "custom-model", "spa" >>}

Requests ==
    {[fileSize       |-> size,
      bodySize       |-> size + 1,
      wellFormed     |-> wf,
      hasFile        |-> hf,
      image          |-> JPEGBytes,
      useVisionModel |-> vision,
      aiProvider     |-> name,
      model          |-> opt[1],
      language       |-> opt[2]] :
        size \in FileSizes, wf \in BOOLEAN, hf \in BOOLEAN,
        vision \in {"", "true", "1"},
        name \in {"", "openai", "gemini", "ollama", "unsupported-xyz"},
        opt \in Options}

NoRequest ==
    [fileSize |-> 0, bodySize |-> 0, wellFormed |-> FALSE, hasFile |-> FALSE,
     image |-> << >>, useVisionModel |-> "", aiProvider |-> "",
     model |-> "", language |-> ""]

NoProvider == [kind |-> "", model |-> ""]

NoCall == [made |-> FALSE]

InitLoc ==
    [imageData      |-> << >>,
     useVisionModel |-> FALSE,
     aiProvider     |-> "",
     model          |-> "",
     language       |-> "",
     tempName       |-> 0,
     stage          |-> 0,
     applied        |-> << >>,
     processedImage |-> << >>,
     err            |-> "",
     cause          |-> "",
     failedAt       |-> "",
     ocrText        |-> "",
     ocrDuration    |-> 0,
     imageBase64    |-> << >>,
     provider       |-> NoProvider,
     sent           |-> NoCall,
     aiDuration     |-> 0,
     invoice        |-> NoInvoice,
     elapsed        |-> 0]

NoCalls == [preprocessor |-> 0, recognizer |-> 0, provider |-> 0]

NoResponse == [status |-> 0]

NoInput == [given |-> FALSE]

NoOutput == [done |-> FALSE]

Init ==
    /\ config \in Configs
    /\ pc = [r \in Workers |-> "idle"]
    /\ req = [r \in Workers |-> NoRequest]
    /\ loc = [r \in Workers |-> InitLoc]
    /\ calls = [r \in Workers |-> NoCalls]
    /\ log = [r \in Workers |-> << >>]
    /\ response = [r \in Workers |-> NoResponse]
    /\ magickUp = FALSE
    /\ tempFiles = {}
    /\ input = NoInput
    /\ output = NoOutput

\* the record rec with the fields of upd replaced
Upd(rec, upd) ==
    [f \in DOMAIN rec |-> IF f \in DOMAIN upd THEN upd[f] ELSE rec[f]]

Goto(r, label) == pc' = [pc EXCEPT ![r] = label]

Set(r, upd) == loc' = [loc EXCEPT ![r] = Upd(@, upd)]

Reach(r, stage) == log' = [log EXCEPT ![r] = Append(@, stage)]

(***************************************************************************)
(* Handler.sendError and the JSON encoding of models.ProcessResponse       *)
(* (omitempty drops a nil invoice, an empty error and a zero duration).    *)
(***************************************************************************)
sendError(statusCode, message) ==
    [status |-> statusCode, body |-> [k \in {"error"} |-> message]]

\* Encode with success tagged omitempty as well
Encode_OmitFalse(resp) ==
    LET keys == {"totalDuration"}
                \cup (IF resp.Success THEN {"success"} ELSE {})
                \cup (IF resp.Invoice # NoInvoice THEN {"invoice"} ELSE {})
                \cup (IF resp.Error # "" THEN {"error"} ELSE {})
                \cup (IF resp.OCRDuration # 0 THEN {"ocrDuration"} ELSE {})
                \cup (IF resp.AIDuration # 0 THEN {"aiDuration"} ELSE {})
    IN  [k \in keys |->
            CASE k = "success"       -> resp.Success
              [] k = "invoice"       -> resp.Invoice
              [] k = "error"         -> resp.Error
              [] k = "ocrDuration"   -> resp.OCRDuration
              [] k = "aiDuration"    -> resp.AIDuration
              [] k = "totalDuration" -> resp.TotalDuration]

\* Encode with no field tagged omitempty
Encode_KeepEmpty(resp) ==
    LET keys == {"success", "totalDuration", "invoice", "error",
                    "ocrDuration", "aiDuration"}
    IN  [k \in keys |->
            CASE k = "success"       -> resp.Success
              [] k = "invoice"       -> resp.Invoice
              [] k = "error"         -> resp.Error
              [] k = "ocrDuration"   -> resp.OCRDuration
              [] k = "aiDuration"    -> resp.AIDuration
              [] k = "totalDuration" -> resp.TotalDuration]

Encode(resp) ==
    LET keys == {"success", "totalDuration"}
                \cup (IF resp.Invoice # NoInvoice THEN {"invoice"} ELSE {})
                \cup (IF resp.Error # "" THEN {"error"} ELSE {})
                \cup (IF resp.OCRDuration # 0 THEN {"ocrDuration"} ELSE {})
                \cup (IF resp.AIDuration # 0 THEN {"aiDuration"} ELSE {})
    IN  [k \in keys |->
            CASE k = "success"       -> resp.Success
              [] k = "invoice"       -> resp.Invoice
              [] k = "error"         -> resp.Error
              [] k = "ocrDuration"   -> resp.OCRDuration
              [] k = "aiDuration"    -> resp.AIDuration
              [] k = "totalDuration" -> resp.TotalDuration]

(***************************************************************************)
(* Handler.ProcessInvoice, lines 173-212: the upload.                      *)
(***************************************************************************)
\* a request arrives and the server starts a worker for it
Accept(r, q) ==
    /\ pc[r] = "idle"
    /\ req' = [req EXCEPT ![r] = q]
    /\ loc' = [loc EXCEPT ![r] = InitLoc]
    /\ calls' = [calls EXCEPT ![r] = NoCalls]
    /\ log' = [log EXCEPT ![r] = << "received" >>]
    /\ response' = [response EXCEPT ![r] = NoResponse]
    /\ Goto(r, "parse_form")
    /\ UNCHANGED << config, magickUp, tempFiles, parseVars >>

\* ParseMultipartForm without the http.MaxBytesReader of line 179
ParseMultipartForm_NoLimit(r) ==
    /\ pc[r] = "parse_form"
    /\ IF ~req[r].wellFormed
       THEN /\ response' = [response EXCEPT ![r] =
                   sendError(StatusBadRequest,
                             "File too large or invalid form data")]
            /\ Goto(r, "responded")
            /\ Reach(r, "responded")
       ELSE /\ Goto(r, "form_file")
            /\ Reach(r, "size-validated")
            /\ UNCHANGED response
    /\ UNCHANGED << config, req, loc, calls, magickUp, tempFiles, parseVars >>

\* http.MaxBytesReader and r.ParseMultipartForm, lines 179-184
ParseMultipartForm(r) ==
    /\ pc[r] = "parse_form"
    /\ IF req[r].bodySize > MaxUploadSize \/ ~req[r].wellFormed
       THEN /\ response' = [response EXCEPT ![r] =
                   sendError(StatusBadRequest,
                             "File too large or invalid form data")]
            /\ Goto(r, "responded")
            /\ Reach(r, "responded")
       ELSE /\ Goto(r, "form_file")
            /\ Reach(r, "size-validated")
            /\ UNCHANGED response
    /\ UNCHANGED << config, req, loc, calls, magickUp, tempFiles, parseVars >>

\* r.FormFile("file"), lines 187-192
FormFile(r) ==
    /\ pc[r] = "form_file"
    /\ IF ~req[r].hasFile
       THEN /\ response' = [response EXCEPT ![r] =
                   sendError(StatusBadRequest, "No file provided")]
            /\ Goto(r, "responded")
            /\ Reach(r, "responded")
       ELSE /\ Goto(r, "read_all")
            /\ UNCHANGED << response, log >>
    /\ UNCHANGED << config, req, loc, calls, magickUp, tempFiles, parseVars >>

\* ReadAll taking every non-empty value of useVisionModel for true
ReadAll_VisionOnAnyValue(r) ==
    /\ pc[r] = "read_all"
    /\ \E readFails \in BOOLEAN :
         IF readFails
         THEN /\ response' = [response EXCEPT ![r] =
                     sendError(StatusInternalServerError,
                               "Failed to read file")]
              /\ Goto(r, "responded")
              /\ Reach(r, "responded")
              /\ UNCHANGED loc
         ELSE /\ Set(r, [imageData      |-> req[r].image,
                         useVisionModel |-> (req[r].useVisionModel # ""),
                         aiProvider     |->
                            IF req[r].aiProvider = ""
                            THEN config.DefaultProvider
                            ELSE req[r].aiProvider,
                         model          |-> req[r].model,
                         language       |->
                            IF req[r].language = ""
                            THEN config.Language
                            ELSE req[r].language])
              /\ Goto(r, "create_temp")
              /\ UNCHANGED << response, log >>
    /\ UNCHANGED << config, req, calls, magickUp, tempFiles, parseVars >>

\* ReadAll handing over to createProvider before the image is preprocessed
ReadAll_ProviderFirst(r) ==
    /\ pc[r] = "read_all"
    /\ \E readFails \in BOOLEAN :
         IF readFails
         THEN /\ response' = [response EXCEPT ![r] =
                     sendError(StatusInternalServerError,
                               "Failed to read file")]
              /\ Goto(r, "responded")
              /\ Reach(r, "responded")
              /\ UNCHANGED loc
         ELSE /\ Set(r, [imageData      |-> req[r].image,
                         useVisionModel |-> (req[r].useVisionModel = "true"),
                         aiProvider     |->
                            IF req[r].aiProvider = ""
                            THEN config.DefaultProvider
                            ELSE req[r].aiProvider,
                         model          |-> req[r].model,
                         language       |->
                            IF req[r].language = ""
                            THEN config.Language
                            ELSE req[r].language])
              /\ Goto(r, "create_provider")
              /\ UNCHANGED << response, log >>
    /\ UNCHANGED << config, req, calls, magickUp, tempFiles, parseVars >>

\* io.ReadAll(file) and the optional parameters, lines 195-212
ReadAll(r) ==
    /\ pc[r] = "read_all"
    /\ \E readFails \in BOOLEAN :
         IF readFails
         THEN /\ response' = [response EXCEPT ![r] =
                     sendError(StatusInternalServerError,
                               "Failed to read file")]
              /\ Goto(r, "responded")
              /\ Reach(r, "responded")
              /\ UNCHANGED loc
         ELSE /\ Set(r, [imageData      |-> req[r].image,
                         useVisionModel |-> (req[r].useVisionModel = "true"),
                         aiProvider     |->
                            IF req[r].aiProvider = ""
                            THEN config.DefaultProvider
                            ELSE req[r].aiProvider,
                         model          |-> req[r].model,
                         language       |->
                            IF req[r].language = ""
                            THEN config.Language
                            ELSE req[r].language])
              /\ Goto(r, "create_temp")
              /\ UNCHANGED << response, log >>
    /\ UNCHANGED << config, req, calls, magickUp, tempFiles, parseVars >>

(***************************************************************************)
(* Preprocessor.PreprocessImageFromBytes and Preprocessor.PreprocessImage. *)
(* The calls into the operating system, ImageMagick and Tesseract can      *)
(* fail; whether they do is the environment's choice.                      *)
(***************************************************************************)
\* the stages of PreprocessImage in order, as their error messages name them
StageNames ==
    << "trim", "bilevel conversion", "blur", "sharpen", "enhance",
       "contrast reduction", "deskew", "scale" >>

\* NewPreprocessor(h.config.OCR.Engine == "easyocr"), handler.go line 262
scaleForEasyOCR == config.Engine = "easyocr"

LastStage == IF scaleForEasyOCR THEN 8 ELSE 7

\* blobs mw.GetImageBlob can return
Blobs == {JPEGBytes, PNGBytes, << 71, 73 >>, << >>}

\* os.CreateTemp("", "invoice-*.jpg"), lines 109-113; processInvoice calls
\* PreprocessImageFromBytes here (handler.go line 263)
CreateTemp(r) ==
    /\ pc[r] = "create_temp"
    /\ calls' = [calls EXCEPT ![r].preprocessor = @ + 1]
    /\ \E name \in (TempNames \ tempFiles) \cup {0} :
         IF name = 0
         THEN /\ Set(r, [err |-> "failed to create temp file: no space"])
              /\ Goto(r, "preprocess_return")
              /\ UNCHANGED tempFiles
         ELSE /\ Set(r, [tempName |-> name])
              /\ tempFiles' = tempFiles \cup {name}
              /\ Goto(r, "write_temp")
    /\ UNCHANGED << config, req, log, response, magickUp, parseVars >>

\* WriteTemp returning past the removal when the write fails
WriteTemp_LeaksOnFailure(r) ==
    /\ pc[r] = "write_temp"
    /\ \E writeFails \in BOOLEAN :
         IF writeFails
         THEN /\ Set(r, [err |-> "failed to write temp file: disk full"])
              /\ Goto(r, "preprocess_return")
         ELSE /\ Goto(r, "magick_init")
              /\ UNCHANGED loc
    /\ UNCHANGED << config, req, calls, log, response, magickUp, tempFiles,
                    parseVars >>

\* tempFile.Write and tempFile.Close, lines 115-120
WriteTemp(r) ==
    /\ pc[r] = "write_temp"
    /\ \E writeFails \in BOOLEAN :
         IF writeFails
         THEN /\ Set(r, [err |-> "failed to write temp file: disk full"])
              /\ Goto(r, "remove_temp")
         ELSE /\ Goto(r, "magick_init")
              /\ UNCHANGED loc
    /\ UNCHANGED << config, req, calls, log, response, magickUp, tempFiles,
                    parseVars >>

\* imagick.Initialize(), line 27
MagickInitialize(r) ==
    /\ pc[r] = "magick_init"
    /\ magickUp' = TRUE
    /\ Goto(r, "read_image")
    /\ UNCHANGED << config, req, loc, calls, log, response, tempFiles,
                    parseVars >>

\* imagick.NewMagickWand and mw.ReadImage, lines 30-37
ReadImage(r) ==
    /\ pc[r] = "read_image"
    /\ \E readFails \in BOOLEAN :
         IF readFails
         THEN /\ Set(r, [err |-> "failed to read image: no decode delegate"])
              /\ Goto(r, "magick_terminate")
         ELSE /\ Set(r, [stage |-> 1])
              /\ Goto(r, "magick_stage")
    /\ UNCHANGED << config, req, calls, log, response, magickUp, tempFiles,
                    parseVars >>

\* MagickStage going on to the next stage after a failure
MagickStage_GoesOn(r) ==
    /\ pc[r] = "magick_stage"
    /\ \E stageFails \in BOOLEAN :
         LET i == loc[r].stage IN
         IF stageFails
         THEN /\ Set(r, [err |-> StageNames[i] \o " failed: wand error",
                         stage |-> i + 1])
              /\ Goto(r, IF i = LastStage THEN "get_blob" ELSE "magick_stage")
         ELSE /\ Set(r, [stage   |-> i + 1,
                         applied |-> Append(loc[r].applied, StageNames[i])])
              /\ Goto(r, IF i = LastStage THEN "get_blob" ELSE "magick_stage")
    /\ UNCHANGED << config, req, calls, log, response, magickUp, tempFiles,
                    parseVars >>

\* one stage of lines 39-95: the stage loc[r].stage runs, or fails
MagickStage(r) ==
    /\ pc[r] = "magick_stage"
    /\ \E stageFails \in BOOLEAN :
         LET i == loc[r].stage IN
         IF stageFails
         THEN /\ Set(r, [err |-> StageNames[i] \o " failed: wand error"])
              /\ Goto(r, "magick_terminate")
         ELSE /\ Set(r, [stage   |-> i + 1,
                         applied |-> Append(loc[r].applied, StageNames[i])])
              /\ Goto(r, IF i = LastStage THEN "get_blob" ELSE "magick_stage")
    /\ UNCHANGED << config, req, calls, log, response, magickUp, tempFiles,
                    parseVars >>

\* mw.GetImageBlob, lines 98-103
GetImageBlob(r) ==
    /\ pc[r] = "get_blob"
    /\ \E blob \in Blobs :
         IF Len(blob) = 0
         THEN Set(r, [err |-> "processed image is empty"])
         ELSE Set(r, [processedImage |-> blob])
    /\ Goto(r, "magick_terminate")
    /\ UNCHANGED << config, req, calls, log, response, magickUp, tempFiles,
                    parseVars >>

\* the deferred mw.Destroy() and imagick.Terminate(), lines 28 and 31
MagickTerminate(r) ==
    /\ pc[r] = "magick_terminate"
    /\ magickUp' = FALSE
    /\ Goto(r, "remove_temp")
    /\ UNCHANGED << config, req, loc, calls, log, response, tempFiles,
                    parseVars >>

\* the deferred os.Remove(tempFile.Name()), line 113
RemoveTemp(r) ==
    /\ pc[r] = "remove_temp"
    /\ tempFiles' = tempFiles \ {loc[r].tempName}
    /\ Goto(r, "preprocess_return")
    /\ UNCHANGED << config, req, loc, calls, log, response, magickUp,
                    parseVars >>

\* PreprocessReturn dropping the error of the preprocessor
PreprocessReturn_Unwrapped(r) ==
    /\ pc[r] = "preprocess_return"
    /\ IF loc[r].err # ""
       THEN /\ Set(r, [err      |-> "image preprocessing failed",
                       cause    |-> loc[r].err,
                       failedAt |-> "preprocess"])
            /\ Goto(r, "respond")
            /\ UNCHANGED log
       ELSE /\ Goto(r, IF loc[r].useVisionModel THEN "encode" ELSE "ocr")
            /\ Reach(r, "preprocessed")
            /\ UNCHANGED loc
    /\ UNCHANGED << config, req, calls, response, magickUp, tempFiles,
                    parseVars >>

\* processInvoice, lines 263-266: the outcome of preprocessing
PreprocessReturn(r) ==
    /\ pc[r] = "preprocess_return"
    /\ IF loc[r].err # ""
       THEN /\ Set(r, [err      |-> "image preprocessing failed: " \o loc[r].err,
                       cause    |-> loc[r].err,
                       failedAt |-> "preprocess"])
            /\ Goto(r, "respond")
            /\ UNCHANGED log
       ELSE /\ Goto(r, IF loc[r].useVisionModel THEN "encode" ELSE "ocr")
            /\ Reach(r, "preprocessed")
            /\ UNCHANGED loc
    /\ UNCHANGED << config, req, calls, response, magickUp, tempFiles,
                    parseVars >>


(***************************************************************************)
(* Answers the AI backends give.                                           *)
(***************************************************************************)
Widget ==
    [name |-> Str(<< "W","i","d","g","e","t" >>), amount |-> Str(<< "1","2",".","5","0" >>),
     isTaxed |-> JTrue, quantity |-> Num(<< "2" >>)]

\* the answer of the README and of the round-trip example
GoodDoc ==
    [syntax |-> TRUE, body |-> << >>,
     vendor |-> Str(<< "A","c","m","e" >>), date |-> Str(<< "2","0","2","4","-","0","3","-","0","1" >>),
     total |-> Str(<< "1","2",".","5","0" >>), tax |-> Str(<< "1",".","0","0" >>),
     items |-> Arr(<< Widget >>),
     categories |-> Arr(<< Str(<< "S","h","o","p","p","i","n","g" >>) >>)]

\* an answer that is no JSON
ProseDoc ==
    [syntax |-> FALSE, body |-> << "S","o","r","r","y" >>,
     vendor |-> Absent, date |-> Absent, total |-> Absent, tax |-> Absent,
     items |-> NoArray, categories |-> NoArray]

Plain(doc) == [pre |-> << >>, doc |-> doc, post |-> << >>]

Fenced(doc) ==
    [pre |-> fenceJSON \o << "\n" >>, doc |-> doc,
     post |-> << "\n" >> \o fence]

Answers == {Plain(GoodDoc), Fenced(GoodDoc), Plain(ProseDoc)}

\* texts Tesseract reads off an image
OcrTexts == {"ACME TOTAL 12.50", ""}

(***************************************************************************)
(* processInvoice, lines 268-281: recognition, or the image for a vision   *)
(* model.                                                                  *)
(***************************************************************************)
\* EncodeImage encoding the uploaded bytes, not the preprocessed ones
EncodeImage_RawUpload(r) ==
    /\ pc[r] = "encode"
    /\ Set(r, [imageBase64 |->
                 DataURIPrefix \o EncodeToString(loc[r].imageData)])
    /\ Reach(r, "vision-bypass")
    /\ Goto(r, "create_provider")
    /\ UNCHANGED << config, req, calls, response, magickUp, tempFiles,
                    parseVars >>

\* line 271
EncodeImage(r) ==
    /\ pc[r] = "encode"
    /\ Set(r, [imageBase64 |->
                 DataURIPrefix \o EncodeToString(loc[r].processedImage)])
    /\ Reach(r, "vision-bypass")
    /\ Goto(r, "create_provider")
    /\ UNCHANGED << config, req, calls, response, magickUp, tempFiles,
                    parseVars >>

\* NewTesseractOCR (tesseract.go lines 16-23)
NewTesseractOCR(language) == IF language = "" THEN "eng" ELSE language

\* the calls ExtractText makes on the gosseract client
TesseractCalls ==
    {"SetLanguage", "SetVariable", "SetImageFromBytes", "Text", "MeanTextConf"}

\* ExtractText giving up when the blacklist cannot be set
TesseractExtractText_BlacklistFatal(language, failing, text, duration) ==
    IF "SetLanguage" \in failing
    THEN [text |-> "", duration |-> 0,
          err |-> "failed to set language: tesseract error (" \o language \o ")"]
    ELSE IF "SetVariable" \in failing
    THEN [text |-> "", duration |-> 0,
          err |-> "failed to set blacklist: tesseract error (" \o language \o ")"]
    ELSE IF "SetImageFromBytes" \in failing
    THEN [text |-> "", duration |-> 0,
          err |-> "failed to set image: tesseract error (" \o language \o ")"]
    ELSE IF "Text" \in failing
    THEN [text |-> "", duration |-> 0,
          err |-> "OCR extraction failed: tesseract error (" \o language \o ")"]
    ELSE [text |-> text, duration |-> duration, err |-> ""]

\* TesseractOCR.ExtractText (tesseract.go lines 27-71): what it returns when
\* the calls in failing fail.  A failure of SetVariable is printed and one of
\* the confidence replaced by 0.8; the confidence is not returned.
TesseractExtractText(language, failing, text, duration) ==
    IF "SetLanguage" \in failing
    THEN [text |-> "", duration |-> 0,
          err |-> "failed to set language: tesseract error (" \o language \o ")"]
    ELSE IF "SetImageFromBytes" \in failing
    THEN [text |-> "", duration |-> 0,
          err |-> "failed to set image: tesseract error (" \o language \o ")"]
    ELSE IF "Text" \in failing
    THEN [text |-> "", duration |-> 0,
          err |-> "OCR extraction failed: tesseract error (" \o language \o ")"]
    ELSE [text |-> text, duration |-> duration, err |-> ""]

\* ExtractText whose failure does not end the request
ExtractText_IgnoresFailure(r) ==
    /\ pc[r] = "ocr"
    /\ calls' = [calls EXCEPT ![r].recognizer = @ + 1]
    /\ \E failing \in SUBSET TesseractCalls,
          text \in OcrTexts, duration \in Durations :
       \E got \in {TesseractExtractText(NewTesseractOCR(loc[r].language),
                                        failing, text, duration)} :
         IF got.err # ""
         THEN /\ Set(r, [err      |-> "OCR failed: " \o got.err,
                         cause    |-> got.err,
                         failedAt |-> "ocr"])
              /\ Goto(r, "create_provider")
              /\ UNCHANGED log
         ELSE /\ Set(r, [ocrText     |-> got.text,
                         ocrDuration |-> got.duration,
                         elapsed     |-> loc[r].elapsed + got.duration])
              /\ Reach(r, "OCR-performed")
              /\ Goto(r, "create_provider")
    /\ UNCHANGED << config, req, response, magickUp, tempFiles, parseVars >>

\* TesseractOCR.ExtractText (tesseract.go lines 27-71) and its use at
\* handler.go lines 274-280.  A failure of the blacklist or of the
\* confidence is not returned.
ExtractText(r) ==
    /\ pc[r] = "ocr"
    /\ calls' = [calls EXCEPT ![r].recognizer = @ + 1]
    /\ \E failing \in SUBSET TesseractCalls,
          text \in OcrTexts, duration \in Durations :
       \E got \in {TesseractExtractText(NewTesseractOCR(loc[r].language),
                                        failing, text, duration)} :
         IF got.err # ""
         THEN /\ Set(r, [err      |-> "OCR failed: " \o got.err,
                         cause    |-> got.err,
                         failedAt |-> "ocr"])
              /\ Goto(r, "respond")
              /\ UNCHANGED log
         ELSE /\ Set(r, [ocrText     |-> got.text,
                         ocrDuration |-> got.duration,
                         elapsed     |-> loc[r].elapsed + got.duration])
              /\ Reach(r, "OCR-performed")
              /\ Goto(r, "create_provider")
    /\ UNCHANGED << config, req, response, magickUp, tempFiles, parseVars >>

(***************************************************************************)
(* Handler.createProvider, with the constructors of providers.go.          *)
(***************************************************************************)
orDefault(model, default) == IF model = "" THEN default ELSE model

\* createProvider falling back to Gemini on an unknown name
createProvider_FailOpen(providerName, modelName) ==
    CASE providerName = "openai" ->
            [err |-> "",
             provider |-> [kind |-> "openai",
                           model |-> orDefault(
                               orDefault(modelName, config.OpenAIModel),
                               "gpt-4")]]
      [] providerName = "gemini" ->
            [err |-> "",
             provider |-> [kind |-> "gemini",
                           model |-> orDefault(
                               orDefault(modelName, config.GeminiModel),
                               "gemini-pro")]]
      [] providerName = "ollama" ->
            [err |-> "",
             provider |-> [kind |-> "ollama",
                           model |-> orDefault(
                               orDefault(modelName, config.OllamaModel),
                               "mistral")]]
      [] OTHER ->
            [err |-> "",
             provider |-> [kind |-> "gemini",
                           model |-> orDefault(
                               orDefault(modelName, config.GeminiModel),
                               "gemini-pro")]]

createProvider(providerName, modelName) ==
    CASE providerName = "openai" ->
            [err |-> "",
             provider |-> [kind |-> "openai",
                           model |-> orDefault(
                               orDefault(modelName, config.OpenAIModel),
                               "gpt-4")]]
      [] providerName = "gemini" ->
            [err |-> "",
             provider |-> [kind |-> "gemini",
                           model |-> orDefault(
                               orDefault(modelName, config.GeminiModel),
                               "gemini-pro")]]
      [] providerName = "ollama" ->
            [err |-> "",
             provider |-> [kind |-> "ollama",
                           model |-> orDefault(
                               orDefault(modelName, config.OllamaModel),
                               "mistral")]]
      [] OTHER ->
            [err |-> "unsupported AI provider: " \o providerName,
             provider |-> NoProvider]

\* processInvoice, lines 284-287
CreateProvider(r) ==
    /\ pc[r] = "create_provider"
    /\ LET made == createProvider(loc[r].aiProvider, loc[r].model) IN
       IF made.err # ""
       THEN /\ Set(r, [err      |-> made.err,
                       cause    |-> made.err,
                       failedAt |-> "create_provider"])
            /\ Goto(r, "respond")
            /\ UNCHANGED log
       ELSE /\ Set(r, [provider |-> made.provider])
            /\ Reach(r, "provider-selected")
            /\ Goto(r, "extract")
    /\ UNCHANGED << config, req, calls, response, magickUp, tempFiles,
                    parseVars >>

(***************************************************************************)
(* Extractor.Extract.                                                      *)
(***************************************************************************)
RECURSIVE Join(_, _)
Join(elems, sep) ==
    IF Len(elems) = 0 THEN ""
    ELSE IF Len(elems) = 1 THEN elems[1]
    ELSE elems[1] \o sep \o Join(Tail(elems), sep)

\* years the clock can show when a prompt is built
Years == {2024, 2025}

\* the arguments of the template of buildPrompt; currentYear is
\* time.Now().Year()
buildPrompt(ocrText, currentYear) ==
    [categories  |-> Join(config.Categories, ", "),
     currentYear |-> currentYear,
     receiptText |-> ocrText]

(***************************************************************************)
(* GeminiProvider.ExtractData: the image part built from the image         *)
(* argument (providers.go lines 148-174), with decodeBase64 and            *)
(* detectMIMEType.                                                         *)
(***************************************************************************)
RIFF == << 82, 73, 70, 70 >>

WEBP == << 87, 69, 66, 80 >>

\* detectMIMEType without the WebP signature
detectMIMEType_NoWebP(data) ==
    IF Len(data) < 4 THEN "application/octet-stream"
    ELSE IF data[1] = 255 /\ data[2] = 216 THEN "image/jpeg"
    ELSE IF data[1] = 137 /\ data[2] = 80 /\ data[3] = 78 /\ data[4] = 71
         THEN "image/png"
    ELSE IF data[1] = 71 /\ data[2] = 73 /\ data[3] = 70 THEN "image/gif"
    ELSE "image/jpeg"

\* detectMIMEType (providers.go lines 314-341)
detectMIMEType(data) ==
    IF Len(data) < 4 THEN "application/octet-stream"
    ELSE IF data[1] = 255 /\ data[2] = 216 THEN "image/jpeg"
    ELSE IF data[1] = 137 /\ data[2] = 80 /\ data[3] = 78 /\ data[4] = 71
         THEN "image/png"
    ELSE IF data[1] = 71 /\ data[2] = 73 /\ data[3] = 70 THEN "image/gif"
    ELSE IF Len(data) >= 12 /\ SubSeq(data, 1, 4) = RIFF
            /\ SubSeq(data, 9, 12) = WEBP
         THEN "image/webp"
    ELSE "image/jpeg"

\* the byte of a character of a data URI: the base64 alphabet, the padding
\* and the punctuation of the prefix
asciiOf(c) ==
    IF c = "=" THEN 61
    ELSE IF c = ":" THEN 58
    ELSE IF c = ";" THEN 59
    ELSE IF c = "," THEN 44
    ELSE LET v == (CHOOSE i \in 1..64 : encodeStd[i] = c) - 1 IN
         IF v < 26 THEN 65 + v
         ELSE IF v < 52 THEN 97 + (v - 26)
         ELSE IF v < 62 THEN 48 + (v - 52)
         ELSE IF v = 62 THEN 43
         ELSE 47

\* decodeBase64 (providers.go lines 296-312): io.ReadFull fills the buffer
\* with the bytes of the string itself and does not fail, so the text is
\* returned undecoded and the fallback is never taken
decodeBase64(s) == [i \in 1..Len(s) |-> asciiOf(s[i])]

\* lines 151-157: strings.Split(imageData, ",")[1] of a string that starts
\* with data:image, the string itself otherwise
stripDataURI(imageBase64) ==
    LET first == Index(imageBase64, << "," >>)
        rest  == SubSeq(imageBase64, first + 1, Len(imageBase64))
        next  == Index(rest, << "," >>)
    IN  IF ~HasPrefix(imageBase64, << "d","a","t","a",":","i","m","a","g","e" >>) \/ first = 0
        THEN imageBase64
        ELSE IF next = 0 THEN rest
        ELSE SubSeq(rest, 1, next - 1)

NoBlob == [attached |-> FALSE]

\* lines 148-174: the blob appended to the parts when an image is given
GeminiBlob(imageBase64) ==
    IF imageBase64 = << >> THEN NoBlob
    ELSE [attached |-> TRUE,
          MIMEType |-> detectMIMEType(decodeBase64(stripDataURI(imageBase64))),
          Data     |-> decodeBase64(stripDataURI(imageBase64))]

\* lines 29-35: the prompt is built and the provider called
ExtractCall(r) ==
    /\ pc[r] = "extract"
    /\ calls' = [calls EXCEPT ![r].provider = @ + 1]
    /\ \E year \in Years :
         Set(r, [sent |-> [made     |-> TRUE,
                           provider |-> loc[r].provider,
                           prompt   |-> buildPrompt(loc[r].ocrText, year),
                           image    |-> loc[r].imageBase64,
                           blob     |->
                               IF loc[r].provider.kind = "gemini"
                               THEN GeminiBlob(loc[r].imageBase64)
                               ELSE NoBlob]])
    /\ Reach(r, "extraction-attempted")
    /\ Goto(r, "provider_wait")
    /\ UNCHANGED << config, req, response, magickUp, tempFiles, parseVars >>

\* ExtractReturn dropping the error of parseResponse
ExtractReturn_SwallowsError(r) ==
    /\ pc[r] = "provider_wait"
    /\ \E providerFails \in BOOLEAN, answer \in Answers, duration \in Durations :
       \E parsed \in {parseResponse(answer, loc[r].ocrText,
                                    loc[r].elapsed + duration)} :
         IF providerFails
         THEN Set(r, [err |-> "AI extraction failed: AI extraction failed: "
                              \o loc[r].provider.kind
                              \o " API call failed: timeout",
                      cause    |-> loc[r].provider.kind
                                   \o " API call failed: timeout",
                      failedAt |-> "provider_call",
                      elapsed  |-> loc[r].elapsed + duration])
         ELSE IF parsed.err # ""
         THEN Set(r, [elapsed |-> loc[r].elapsed + duration])
         ELSE Set(r, [invoice    |-> parsed.invoice,
                      aiDuration |-> duration,
                      elapsed    |-> loc[r].elapsed + duration])
    /\ Goto(r, "respond")
    /\ UNCHANGED << config, req, calls, log, response, magickUp, tempFiles,
                    parseVars >>

\* lines 36-48, and processInvoice lines 291-296: the provider returns
ExtractReturn(r) ==
    /\ pc[r] = "provider_wait"
    /\ \E providerFails \in BOOLEAN, answer \in Answers, duration \in Durations :
       \E parsed \in {parseResponse(answer, loc[r].ocrText,
                                    loc[r].elapsed + duration)} :
         IF providerFails
         THEN Set(r, [err |-> "AI extraction failed: AI extraction failed: "
                              \o loc[r].provider.kind
                              \o " API call failed: timeout",
                      cause    |-> loc[r].provider.kind
                                   \o " API call failed: timeout",
                      failedAt |-> "provider_call",
                      elapsed  |-> loc[r].elapsed + duration])
         ELSE IF parsed.err # ""
         THEN Set(r, [err |-> "AI extraction failed: "
                              \o "failed to parse AI response: "
                              \o parsed.err,
                      cause    |-> parsed.err,
                      failedAt |-> "parse",
                      elapsed  |-> loc[r].elapsed + duration])
         ELSE Set(r, [invoice    |-> parsed.invoice,
                      aiDuration |-> duration,
                      elapsed    |-> loc[r].elapsed + duration])
    /\ Goto(r, "respond")
    /\ UNCHANGED << config, req, calls, log, response, magickUp, tempFiles,
                    parseVars >>

(***************************************************************************)
(* Handler.ProcessInvoice, lines 223-247: the response.                    *)
(***************************************************************************)
\* WriteResponse answering a failure of processing with status 500
WriteResponse_ErrorStatus(r) ==
    /\ pc[r] = "respond"
    /\ response' = [response EXCEPT ![r] =
          [status |-> IF loc[r].err # "" THEN StatusInternalServerError
                      ELSE StatusOK,
           body   |->
              IF loc[r].err # ""
              THEN Encode([Success       |-> FALSE,
                           Invoice       |-> NoInvoice,
                           Error         |-> loc[r].err,
                           OCRDuration   |-> 0,
                           AIDuration    |-> 0,
                           TotalDuration |-> loc[r].elapsed])
              ELSE Encode([Success       |-> TRUE,
                           Invoice       |-> loc[r].invoice,
                           Error         |-> "",
                           OCRDuration   |-> loc[r].ocrDuration,
                           AIDuration    |-> loc[r].aiDuration,
                           TotalDuration |-> loc[r].elapsed])]]
    /\ Reach(r, "responded")
    /\ Goto(r, "responded")
    /\ UNCHANGED << config, req, loc, calls, magickUp, tempFiles, parseVars >>

WriteResponse(r) ==
    /\ pc[r] = "respond"
    /\ response' = [response EXCEPT ![r] =
          [status |-> StatusOK,
           body   |->
              IF loc[r].err # ""
              THEN Encode([Success       |-> FALSE,
                           Invoice       |-> NoInvoice,
                           Error         |-> loc[r].err,
                           OCRDuration   |-> 0,
                           AIDuration    |-> 0,
                           TotalDuration |-> loc[r].elapsed])
              ELSE Encode([Success       |-> TRUE,
                           Invoice       |-> loc[r].invoice,
                           Error         |-> "",
                           OCRDuration   |-> loc[r].ocrDuration,
                           AIDuration    |-> loc[r].aiDuration,
                           TotalDuration |-> loc[r].elapsed])]]
    /\ Reach(r, "responded")
    /\ Goto(r, "responded")
    /\ UNCHANGED << config, req, loc, calls, magickUp, tempFiles, parseVars >>

\* the handler returns and the worker ends
Finish(r) ==
    /\ pc[r] = "responded"
    /\ Goto(r, "idle")
    /\ req' = [req EXCEPT ![r] = NoRequest]
    /\ loc' = [loc EXCEPT ![r] = InitLoc]
    /\ calls' = [calls EXCEPT ![r] = NoCalls]
    /\ log' = [log EXCEPT ![r] = << >>]
    /\ response' = [response EXCEPT ![r] = NoResponse]
    /\ UNCHANGED << config, magickUp, tempFiles, parseVars >>

\* a step of the worker r inside the handler
Step(r) ==
    \/ ParseMultipartForm(r)
    \/ FormFile(r)
    \/ ReadAll(r)
    \/ CreateTemp(r)
    \/ WriteTemp(r)
    \/ MagickInitialize(r)
    \/ ReadImage(r)
    \/ MagickStage(r)
    \/ GetImageBlob(r)
    \/ MagickTerminate(r)
    \/ RemoveTemp(r)
    \/ PreprocessReturn(r)
    \/ EncodeImage(r)
    \/ ExtractText(r)
    \/ CreateProvider(r)
    \/ ExtractCall(r)
    \/ ExtractReturn(r)
    \/ WriteResponse(r)
    \/ Finish(r)

(***************************************************************************)
(* Spec: the server handles one request after another, over every request  *)
(* of Requests.  Workers are interchangeable, so worker 1 takes them all.  *)
(***************************************************************************)
ReceiveRequest ==
    \E q \in Requests : Accept(1, q)

Next == ReceiveRequest \/ Step(1)

Spec == Init /\ [][Next]_vars


(***************************************************************************)
(* SpecConc: workers preprocess concurrently.  The ImageMagick environment *)
(* and the temp directory are the only state the workers share, both used  *)
(* inside PreprocessImageFromBytes; what a worker does after it touches    *)
(* neither and is one step here.                                           *)
(***************************************************************************)
ConcRequests ==
    {q \in Requests :
        /\ q.fileSize = 1 /\ q.wellFormed /\ q.hasFile
        /\ q.aiProvider = "openai" /\ q.model = ""
        /\ q.useVisionModel \in {"", "true"}}

ReceiveConc(r) == \E q \in ConcRequests : Accept(r, q)

\* the rest of processInvoice and the response, lines 268-297 and 223-247
AfterPreprocess(r) ==
    /\ pc[r] \in {"encode", "ocr", "respond"}
    /\ Goto(r, "responded")
    /\ response' = [response EXCEPT ![r] = [status |-> StatusOK]]
    /\ Reach(r, "responded")
    /\ UNCHANGED << config, req, loc, calls, magickUp, tempFiles, parseVars >>

NextConc ==
    \E r \in Workers :
        \/ ReceiveConc(r)
        \/ ParseMultipartForm(r)
        \/ FormFile(r)
        \/ ReadAll(r)
        \/ CreateTemp(r)
        \/ WriteTemp(r)
        \/ MagickInitialize(r)
        \/ ReadImage(r)
        \/ MagickStage(r)
        \/ GetImageBlob(r)
        \/ MagickTerminate(r)
        \/ RemoveTemp(r)
        \/ PreprocessReturn(r)
        \/ AfterPreprocess(r)
        \/ Finish(r)

SpecConc == Init /\ [][NextConc]_vars

(***************************************************************************)
(* SpecTemp: workers in PreprocessImageFromBytes concurrently, for the     *)
(* temp directory they share.  The upload is one step, and PreprocessImage *)
(* is one step, since neither creates or removes a file.                   *)
(***************************************************************************)
\* ProcessInvoice, lines 173-212, for a valid upload
StartPreprocess(r) ==
    /\ pc[r] = "idle"
    /\ \E q \in {c \in ConcRequests : c.useVisionModel = ""} :
         /\ req' = [req EXCEPT ![r] = q]
         /\ loc' = [loc EXCEPT ![r] =
                      Upd(InitLoc, [imageData  |-> q.image,
                                    aiProvider |-> q.aiProvider,
                                    language   |-> config.Language])]
    /\ calls' = [calls EXCEPT ![r] = NoCalls]
    /\ log' = [log EXCEPT ![r] = << "received", "size-validated" >>]
    /\ response' = [response EXCEPT ![r] = NoResponse]
    /\ Goto(r, "create_temp")
    /\ UNCHANGED << config, magickUp, tempFiles, parseVars >>

\* PreprocessImage (preprocessor.go lines 25-104) as one step: the read
\* fails, the first stage fails, or all stages run and the blob is taken
PreprocessImage(r) ==
    /\ pc[r] = "magick_init"
    /\ \E failedStage \in {0, 1, LastStage + 1}, blob \in {JPEGBytes, << >>} :
         IF failedStage = 0
         THEN Set(r, [err |-> "failed to read image: no decode delegate"])
         ELSE IF failedStage <= LastStage
         THEN Set(r, [err     |-> StageNames[failedStage] \o " failed: wand error",
                      stage   |-> failedStage,
                      applied |-> SubSeq(StageNames, 1, failedStage - 1)])
         ELSE IF Len(blob) = 0
         THEN Set(r, [err     |-> "processed image is empty",
                      stage   |-> LastStage + 1,
                      applied |-> SubSeq(StageNames, 1, LastStage)])
         ELSE Set(r, [processedImage |-> blob,
                      stage          |-> LastStage + 1,
                      applied        |-> SubSeq(StageNames, 1, LastStage)])
    /\ Goto(r, "remove_temp")
    /\ UNCHANGED << config, req, calls, log, response, magickUp, tempFiles,
                    parseVars >>

SpecTemp ==
    Init /\ [][\E r \in Workers :
                  \/ StartPreprocess(r)
                  \/ CreateTemp(r)
                  \/ WriteTemp(r)
                  \/ PreprocessImage(r)
                  \/ RemoveTemp(r)
                  \/ PreprocessReturn(r)
                  \/ AfterPreprocess(r)
                  \/ Finish(r)]_vars

(***************************************************************************)
(* SpecParse: Extractor.parseResponse on its own, over answers put         *)
(* together from sample tokens.                                            *)
(***************************************************************************)
Gadget ==
    [name |-> Str(<< "G","a","d","g","e","t" >>), amount |-> Num(<< "3",".","5" >>),
     isTaxed |-> Absent, quantity |-> Absent]

\* a line item with a negative quantity
Refund ==
    [name |-> Str(<< "R","e","f","u","n","d" >>), amount |-> Str(<< "-","3",".","5","0" >>),
     isTaxed |-> JFalse, quantity |-> Num(<< "-","1" >>)]

VendorTokens == {Str(<< "A","c","m","e" >>), Str(<< "A",BQ,BQ,BQ,"B" >>), Absent}

DateTokens ==
    {Str(<< "2","0","2","4","-","0","3","-","0","1" >>), Str(<< "0","1","/","0","3","/","2","0","2","4" >>), Str(<< "2","0","2","4","-","0","3","-","0","1","T","1","0",":","3","0",":","0","0","Z" >>),
     Str(<< "M","a","r","c","h"," ","1","s","t" >>), Str(<< "2","0","2","4","-","0","2","-","3","0" >>), Absent}

TotalTokens ==
    {Str(<< "1","2",".","5","0" >>), Num(<< "1","2",".","5","0" >>), Num(<< "1","e","2" >>), Str(<< "a","b","c" >>), Absent}

TaxTokens == {Str(<< "1",".","0","0" >>), Num(<< "0" >>), Absent}

ItemsTokens ==
    {NoArray, Arr(<< >>), Arr(<< Widget >>), Arr(<< Widget, Gadget >>),
     Arr(<< Refund >>)}

CategoriesTokens ==
    {NoArray, Arr(<< Str(<< "S","h","o","p","p","i","n","g" >>) >>),
     Arr(<< Str(<< "F","o","o","d" >>), Str(<< "S","h","o","p","p","i","n","g" >>), Str(<< "T","r","a","v","e","l" >>) >>)}

Docs ==
    [syntax : {TRUE}, body : {<< >>},
     vendor : VendorTokens, date : DateTokens, total : TotalTokens,
     tax : TaxTokens, items : ItemsTokens, categories : CategoriesTokens]
    \cup {ProseDoc}

\* an answer with a sentence before the JSON
Chatty(doc) == [pre |-> << "H","e","r","e",":"," " >>, doc |-> doc, post |-> << >>]

\* fences with blank space around them, and fences with none at all
FencedWide(doc) ==
    [pre |-> << " ", "\n" >> \o fenceJSON \o << "\n", " " >>, doc |-> doc,
     post |-> << " ", "\n" >> \o fence \o << "\n", " " >>]

FencedTight(doc) == [pre |-> fenceJSON, doc |-> doc, post |-> fence]

\* an answer whose vendor holds a fence
FenceInsideDoc == [GoodDoc EXCEPT !.vendor = Str(<< "A",BQ,BQ,BQ,"B" >>)]

ParseInputs ==
    {[given |-> TRUE, response |-> wrap, ocrText |-> text] :
        wrap \in {Plain(d) : d \in Docs} \cup {Fenced(d) : d \in Docs}
                 \cup {Chatty(GoodDoc)}
                 \cup {FencedWide(d) : d \in {GoodDoc, ProseDoc, FenceInsideDoc}}
                 \cup {FencedTight(d) : d \in {GoodDoc, ProseDoc, FenceInsideDoc}},
        text \in {"ACME TOTAL 12.50"}}

InitParse ==
    /\ config \in Configs
    /\ config.Engine = "tesseract"
    /\ pc = [r \in Workers |-> "idle"]
    /\ req = [r \in Workers |-> NoRequest]
    /\ loc = [r \in Workers |-> InitLoc]
    /\ calls = [r \in Workers |-> NoCalls]
    /\ log = [r \in Workers |-> << >>]
    /\ response = [r \in Workers |-> NoResponse]
    /\ magickUp = FALSE
    /\ tempFiles = {}
    /\ input \in ParseInputs
    /\ output = NoOutput

\* Extractor.Extract, line 43
Parse ==
    /\ input.given
    /\ ~output.done
    /\ \E now \in Durations :
         output' = [done |-> TRUE,
                    result |-> parseResponse(input.response, input.ocrText, now)]
    /\ UNCHANGED << pipeVars, input >>

SpecParse == InitParse /\ [][Parse]_vars


(***************************************************************************)
(* SpecSniff: detectMIMEType on its own, over the prefixes of sample       *)
(* files.                                                                  *)
(***************************************************************************)
\* the heads of a JPEG, a PNG, a GIF, a WebP and a WAVE file, of files
\* that miss a signature by one byte, of a PDF and of base64 text
SampleFiles ==
    {<< 255, 216, 255, 224, 0, 16 >>,
     << 137, 80, 78, 71, 13, 10, 26, 10 >>,
     << 71, 73, 70, 56, 57, 97 >>,
     << 82, 73, 70, 70, 36, 0, 0, 0, 87, 69, 66, 80, 86, 80, 56 >>,
     << 82, 73, 70, 70, 40, 0, 0, 0, 87, 65, 86, 69, 102 >>,
     << 255, 217, 0, 0, 1 >>,
     << 137, 80, 78, 72, 13, 10 >>,
     << 71, 73, 71, 56, 57 >>,
     << 37, 80, 68, 70, 45, 49, 46, 52 >>,
     << 47, 57, 106, 47, 52, 65, 65, 81 >>}

SniffInputs ==
    UNION {{[given |-> TRUE, data |-> SubSeq(f, 1, n)] : n \in 0..Len(f)} :
              f \in SampleFiles}

\* no request is being handled
PipelineIdle ==
    /\ pc = [r \in Workers |-> "idle"]
    /\ req = [r \in Workers |-> NoRequest]
    /\ loc = [r \in Workers |-> InitLoc]
    /\ calls = [r \in Workers |-> NoCalls]
    /\ log = [r \in Workers |-> << >>]
    /\ response = [r \in Workers |-> NoResponse]
    /\ magickUp = FALSE
    /\ tempFiles = {}

InitSniff ==
    /\ config \in Configs
    /\ PipelineIdle
    /\ input \in SniffInputs
    /\ output = NoOutput

\* GeminiProvider.ExtractData, line 165
Sniff ==
    /\ input.given
    /\ ~output.done
    /\ output' = [done |-> TRUE, mimeType |-> detectMIMEType(input.data)]
    /\ UNCHANGED << pipeVars, input >>

SpecSniff == InitSniff /\ [][Sniff]_vars

(***************************************************************************)
(* SpecOcr: TesseractOCR.ExtractText on its own, over the sets of client   *)
(* calls that fail.                                                        *)
(***************************************************************************)
OcrInputs ==
    [given : {TRUE}, language : {"eng", "spa"},
     failing : SUBSET TesseractCalls, text : OcrTexts, duration : Durations]

InitOcr ==
    /\ config \in Configs
    /\ PipelineIdle
    /\ input \in OcrInputs
    /\ output = NoOutput

\* processInvoice, line 275
Recognize ==
    /\ input.given
    /\ ~output.done
    /\ output' = [done |-> TRUE,
                  result |-> TesseractExtractText(input.language, input.failing,
                                                  input.text, input.duration)]
    /\ UNCHANGED << pipeVars, input >>

SpecOcr == InitOcr /\ [][Recognize]_vars

(***************************************************************************)
(* SpecTwice: Extractor.Extract called twice with the same arguments on a  *)
(* stub provider whose answer is a function of the prompt.                 *)
(***************************************************************************)
\* what a stub answers: a text, or an error
Replies ==
    {[err |-> "", answer |-> Plain(GoodDoc)],
     [err |-> "", answer |-> Plain(ProseDoc)],
     [err |-> "stub API call failed: timeout", answer |-> Plain(ProseDoc)]}

Prompts(ocrText) == {buildPrompt(ocrText, year) : year \in Years}

Stubs(ocrText) == [Prompts(ocrText) -> Replies]

\* Extract with the time of the call written into rawText
Extract_StampsRawText(stub, ocrText, imageBase64, year, now) ==
    IF stub[buildPrompt(ocrText, year)].err # ""
    THEN [err |-> "AI extraction failed: "
                  \o stub[buildPrompt(ocrText, year)].err,
          invoice |-> NoInvoice]
    ELSE LET parsed == parseResponse(stub[buildPrompt(ocrText, year)].answer,
                                     ocrText \o " at " \o ToString(now), now)
         IN  [err |-> IF parsed.err = "" THEN ""
                      ELSE "failed to parse AI response: " \o parsed.err,
              invoice |-> parsed.invoice]

\* Extractor.Extract (extractor.go lines 28-49) on the provider stub
Extract(stub, ocrText, imageBase64, year, now) ==
    IF stub[buildPrompt(ocrText, year)].err # ""
    THEN [err |-> "AI extraction failed: "
                  \o stub[buildPrompt(ocrText, year)].err,
          invoice |-> NoInvoice]
    ELSE LET parsed == parseResponse(stub[buildPrompt(ocrText, year)].answer,
                                     ocrText, now)
         IN  [err |-> IF parsed.err = "" THEN ""
                      ELSE "failed to parse AI response: " \o parsed.err,
              invoice |-> parsed.invoice]

InitTwice ==
    /\ config \in Configs
    /\ PipelineIdle
    /\ \E text \in OcrTexts, image \in {<< >>, DataURIPrefix \o EncodeToString(PNGBytes)} :
         input \in {[given |-> TRUE, ocrText |-> text, imageBase64 |-> image,
                     stub |-> s] : s \in Stubs(text)}
    /\ output = [done |-> FALSE, results |-> << >>]

\* one call of Extract; the second call ends the run
ExtractOnce ==
    /\ input.given
    /\ ~output.done
    /\ \E year \in Years :
         output' =
            [done |-> Len(output.results) = 1,
             results |->
                Append(output.results,
                       [year |-> year,
                        outcome |-> Extract(input.stub, input.ocrText,
                                            input.imageBase64, year,
                                            Len(output.results) + 1)])]
    /\ UNCHANGED << pipeVars, input >>

SpecTwice == InitTwice /\ [][ExtractOnce]_vars

(***************************************************************************)
(* SpecHealth: GET /health, while a worker handles uploads.                *)
(***************************************************************************)
\* checkTesseract (handler.go lines 123-145); found is whether
\* "tesseract --version" ran
checkTesseract(found) ==
    IF found
    THEN [Available |-> TRUE, Version |-> "tesseract 5.3.0", Error |-> ""]
    ELSE [Available |-> FALSE, Version |-> "",
          Error |-> "tesseract not found or not executable"]

\* checkImageMagick (handler.go lines 148-170); found is whether
\* "convert -version" ran
checkImageMagick(found) ==
    IF found
    THEN [Available |-> TRUE, Version |-> "Version: ImageMagick 7.1.1",
          Error |-> ""]
    ELSE [Available |-> FALSE, Version |-> "",
          Error |-> "imagemagick not found or not executable"]

\* the HealthResponse of lines 91-108 and its status of lines 111-116
HealthResponse(tesseractStatus, imageMagickStatus) ==
    [status |-> IF ~tesseractStatus.Available \/ ~imageMagickStatus.Available
                THEN StatusServiceUnavailable ELSE StatusOK,
     body |-> [status |-> IF ~tesseractStatus.Available
                             \/ ~imageMagickStatus.Available
                          THEN "degraded" ELSE "healthy",
               version |-> "1.0.0",
               tesseract |-> tesseractStatus,
               imageMagick |-> imageMagickStatus,
               ai |-> [defaultProvider |-> config.DefaultProvider,
                       ocrEngine |-> config.Engine]]]

\* Health answering 200 as soon as Tesseract is there
Health_OnlyTesseract ==
    /\ \E tesseractFound \in BOOLEAN, imageMagickFound \in BOOLEAN :
         output' =
            [done |-> TRUE,
             tesseractFound |-> tesseractFound,
             imageMagickFound |-> imageMagickFound,
             answer |-> HealthResponse(checkTesseract(tesseractFound),
                                       checkImageMagick(tesseractFound))]
    /\ UNCHANGED << pipeVars, input >>

\* Handler.Health (handler.go lines 79-120)
Health ==
    /\ \E tesseractFound \in BOOLEAN, imageMagickFound \in BOOLEAN :
         output' =
            [done |-> TRUE,
             tesseractFound |-> tesseractFound,
             imageMagickFound |-> imageMagickFound,
             answer |-> HealthResponse(checkTesseract(tesseractFound),
                                       checkImageMagick(imageMagickFound))]
    /\ UNCHANGED << pipeVars, input >>

SpecHealth == Init /\ [][ReceiveConc(1) \/ Step(1) \/ Health]_vars

(***************************************************************************)
(* Properties of the request pipeline (Spec).                              *)
(***************************************************************************)

Supported == {"openai", "gemini", "ollama"}

\* the provider name of the request of r after the fallback to the default
ProviderNameOf(r) ==
    IF req[r].aiProvider = "" THEN config.DefaultProvider ELSE req[r].aiProvider

Answered(r) == response[r] # NoResponse

\* the upload of r passes ParseMultipartForm and FormFile
ValidUpload(r) ==
    req[r].wellFormed /\ req[r].hasFile /\ req[r].bodySize <= MaxUploadSize

\* C1: a request whose provider name, after the fallback to the configured
\* default, is not openai, gemini or ollama never has the preprocessor or the
\* recognizer invoked.
C1_UnsupportedProviderNoImageWork ==
    \A r \in Workers :
        (pc[r] # "idle" /\ ProviderNameOf(r) \notin Supported)
        => (calls[r].preprocessor = 0 /\ calls[r].recognizer = 0)

\* C2: an upload over the size limit is answered with status 400, and the
\* preprocessor, the recognizer and the provider are never invoked for it.
C2_OversizedRejected ==
    \A r \in Workers :
        req[r].bodySize > MaxUploadSize
        => /\ calls[r] = NoCalls
           /\ pc[r] \notin {"idle", "parse_form"} => Answered(r)
           /\ Answered(r) => response[r].status = 400

C2_Witness ==
    \E r \in Workers :
        /\ req[r].fileSize > MaxUploadSize /\ req[r].wellFormed /\ req[r].hasFile
        /\ Answered(r) /\ response[r].status = 400

HasSuccess(body) == "success" \in DOMAIN body /\ body["success"] \in BOOLEAN

ProcessingFailed(r) == calls[r].preprocessor > 0 /\ loc[r].invoice = NoInvoice

\* C5: once the upload is accepted, a failure of preprocessing, recognition,
\* provider selection, the provider call or the parse of the answer is
\* answered with status 200, success false and a non-empty error message.
C5_FailureInsideOK ==
    \A r \in Workers :
        (Answered(r) /\ ProcessingFailed(r))
        => /\ response[r].status = 200
           /\ HasSuccess(response[r].body)
           /\ response[r].body["success"] = FALSE
           /\ "error" \in DOMAIN response[r].body
           /\ response[r].body["error"] # ""

C5_Witness ==
    \E r \in Workers :
        /\ Answered(r) /\ ProcessingFailed(r)
        /\ calls[r].provider = 1
        /\ response[r].body["error"]
           = "AI extraction failed: failed to parse AI response: "
             \o "JSON parse error: invalid character looking for beginning of value"
             \o "\nResponse: Sorry"

\* C6: a 200 answer is either success true with the invoice, the durations
\* and no error, or success false with an error, the total duration and no
\* invoice.
C6_TwoShapes ==
    \A r \in Workers :
        (Answered(r) /\ response[r].status = 200)
        => LET body == response[r].body IN
           /\ HasSuccess(body)
           /\ body["success"]
              => /\ DOMAIN body
                    = {"success", "invoice", "aiDuration", "totalDuration"}
                      \cup (IF calls[r].recognizer > 0 THEN {"ocrDuration"} ELSE {})
                 /\ body["invoice"] # NoInvoice
                 /\ body["invoice"] = loc[r].invoice
                 /\ body["aiDuration"] \in Durations
                 /\ body["totalDuration"] >= body["aiDuration"]
           /\ ~body["success"]
              => /\ DOMAIN body = {"success", "error", "totalDuration"}
                 /\ body["error"] # ""

C6_Witness ==
    \E r \in Workers :
        /\ Answered(r) /\ response[r].status = 200
        /\ response[r].body["success"]
        /\ "ocrDuration" \in DOMAIN response[r].body

\* encoding/base64, StdEncoding.DecodeString
StdValue(c) == (CHOOSE i \in 1..64 : encodeStd[i] = c) - 1

RECURSIVE StdDecode(_)
StdDecode(t) ==
    IF Len(t) < 4 THEN << >>
    ELSE IF t[3] = "=" THEN
        << StdValue(t[1]) * 4 + (StdValue(t[2]) \div 16) >>
    ELSE IF t[4] = "=" THEN
        << StdValue(t[1]) * 4 + (StdValue(t[2]) \div 16),
           (StdValue(t[2]) % 16) * 16 + (StdValue(t[3]) \div 4) >>
    ELSE
        << StdValue(t[1]) * 4 + (StdValue(t[2]) \div 16),
           (StdValue(t[2]) % 16) * 16 + (StdValue(t[3]) \div 4),
           (StdValue(t[3]) % 4) * 64 + StdValue(t[4]) >>
        \o StdDecode(SubSeq(t, 5, Len(t)))

\* uri is the data URI of the JPEG image
IsDataURIOf(uri, image) ==
    LET prefix  == << "d","a","t","a",":","i","m","a","g","e","/","j","p","e","g",";","b","a","s","e","6","4","," >>
        payload == SubSeq(uri, Len(prefix) + 1, Len(uri))
    IN  /\ HasPrefix(uri, prefix)
        /\ Len(payload) = 4 * ((Len(image) + 2) \div 3)
        /\ StdDecode(payload) = image

\* C7: with useVisionModel = true the recognizer is never invoked, the
\* provider is sent the preprocessed image as a base64 data URI, and the
\* rawText of a resulting invoice is empty.
C7_VisionBypass ==
    \A r \in Workers :
        req[r].useVisionModel = "true"
        => /\ calls[r].recognizer = 0
           /\ loc[r].sent.made
              => /\ IsDataURIOf(loc[r].sent.image, loc[r].processedImage)
                 /\ loc[r].processedImage # << >>
           /\ loc[r].invoice # NoInvoice => loc[r].invoice.RawText = ""
           /\ (Answered(r) /\ "invoice" \in DOMAIN response[r].body)
              => response[r].body["invoice"].RawText = ""

C7_Witness ==
    \E r \in Workers :
        /\ req[r].useVisionModel = "true"
        /\ loc[r].sent.made
        /\ loc[r].processedImage = PNGBytes
        /\ Answered(r) /\ "invoice" \in DOMAIN response[r].body

OcrOrder ==
    << "received", "size-validated", "preprocessed", "OCR-performed",
       "provider-selected", "extraction-attempted" >>

VisionOrder ==
    << "received", "size-validated", "preprocessed", "vision-bypass",
       "provider-selected", "extraction-attempted" >>

IsPrefix(a, b) == Len(a) <= Len(b) /\ SubSeq(b, 1, Len(a)) = a

Ended(l) == Len(l) > 0 /\ l[Len(l)] = "responded"

\* the stages of l before the response
Before(l) == IF Ended(l) THEN SubSeq(l, 1, Len(l) - 1) ELSE l

Reached(l, stage) == \E i \in 1..Len(l) : l[i] = stage

\* C8: the stages of a request occur in the order received, size-validated,
\* preprocessed, one of OCR-performed and vision-bypass, provider-selected,
\* extraction-attempted, responded; the provider is selected only after
\* preprocessing and recognition, and the response comes last.
C8_StageOrder ==
    \A r \in Workers :
        LET l == log[r] IN
        /\ IsPrefix(Before(l), OcrOrder) \/ IsPrefix(Before(l), VisionOrder)
        /\ Ended(l) <=> Answered(r)
        /\ Reached(l, "preprocessed") => calls[r].preprocessor = 1
        /\ Reached(l, "OCR-performed") => calls[r].recognizer = 1
        /\ loc[r].provider # NoProvider <=> Reached(l, "provider-selected")
        /\ calls[r].provider > 0 <=> Reached(l, "extraction-attempted")
        /\ calls[r].recognizer > 0 => Reached(l, "preprocessed")
        /\ loc[r].imageBase64 # << >> => Reached(l, "preprocessed")

C8_Witness ==
    \E r \in Workers : log[r] = OcrOrder \o << "responded" >>

(***************************************************************************)
(* Properties of concurrent requests (SpecConc).                           *)
(***************************************************************************)
\* r is between its imagick.Initialize and its imagick.Terminate
InsideMagick(r) ==
    pc[r] \in {"read_image", "magick_stage", "get_blob", "magick_terminate"}

\* C9: no request terminates the ImageMagick environment while another
\* request is between its own initialise and terminate: a request inside
\* that span always finds the environment initialised.
C9_NoTerminateUnderUse ==
    \A r \in Workers : InsideMagick(r) => magickUp

(***************************************************************************)
(* Properties of parseResponse (SpecParse).                                *)
(***************************************************************************)
\* what a decimal literal denotes: coefficient and exponent
DecimalLiterals ==
    {<< << "1","2",".","5","0" >>, [value |-> 1250, exp |-> 0 - 2] >>,
     << << "1",".","0","0" >>, [value |-> 100, exp |-> 0 - 2] >>,
     << << "3",".","5" >>, [value |-> 35, exp |-> 0 - 1] >>,
     << << "0" >>, [value |-> 0, exp |-> 0] >>}

\* what a date in YYYY-MM-DD form denotes
ISODates ==
    {<< << "2","0","2","4","-","0","3","-","0","1" >>, [ZeroTime EXCEPT !.year = 2024, !.month = 3, !.day = 1] >>}

Quantities == {<< << "2" >>, 2 >>}

Literals(table) == {p[1] : p \in table}

Denoted(table, text) == (CHOOSE p \in table : p[1] = text)[2]

IsDecimalToken(v) ==
    v.kind \in {"string", "number"} /\ v.text \in Literals(DecimalLiterals)

IsItemToken(it) ==
    /\ it.name.kind = "string"
    /\ IsDecimalToken(it.amount)
    /\ it.isTaxed.kind \in {"true", "false"}
    /\ it.quantity.kind = "number" /\ it.quantity.text \in Literals(Quantities)

\* the answer is a JSON object with all six fields in the forms of C10
IsInvoiceAnswer(answer) ==
    /\ answer.pre = << >> /\ answer.post = << >>
    /\ answer.doc.syntax
    /\ answer.doc.vendor.kind = "string"
    /\ answer.doc.date.kind = "string"
    /\ answer.doc.date.text \in Literals(ISODates)
    /\ IsDecimalToken(answer.doc.total)
    /\ IsDecimalToken(answer.doc.tax)
    /\ answer.doc.items.kind = "array"
    /\ \A i \in 1..Len(answer.doc.items.elems) :
          IsItemToken(answer.doc.items.elems[i])
    /\ answer.doc.categories.kind = "array"
    /\ \A i \in 1..Len(answer.doc.categories.elems) :
          answer.doc.categories.elems[i].kind = "string"

ItemAsAnswered(item, it) ==
    /\ item.Name = it.name.text
    /\ item.Amount = Denoted(DecimalLiterals, it.amount.text)
    /\ item.IsTaxed = (it.isTaxed.kind = "true")
    /\ item.Quantity = Denoted(Quantities, it.quantity.text)

InvoiceAsAnswered(invoice, doc) ==
    /\ invoice.Vendor = doc.vendor.text
    /\ invoice.Date = Denoted(ISODates, doc.date.text)
    /\ invoice.Total = Denoted(DecimalLiterals, doc.total.text)
    /\ invoice.Tax = Denoted(DecimalLiterals, doc.tax.text)
    /\ Len(invoice.Items) = Len(doc.items.elems)
    /\ \A i \in 1..Len(doc.items.elems) :
          ItemAsAnswered(invoice.Items[i], doc.items.elems[i])
    /\ ~invoice.Categories.nil
    /\ Len(invoice.Categories.elems) = Len(doc.categories.elems)
    /\ \A i \in 1..Len(doc.categories.elems) :
          invoice.Categories.elems[i] = doc.categories.elems[i].text

\* C10: for an answer that is a JSON object with vendor, a YYYY-MM-DD date,
\* decimal total and tax (quoted or not), an items array and a categories
\* array, the invoice has exactly the vendor, date, total, tax, items and
\* categories of the answer.
C10_FieldsAsAnswered ==
    (output.done /\ IsInvoiceAnswer(input.response))
    => /\ output.result.err = ""
       /\ InvoiceAsAnswered(output.result.invoice, input.response.doc)

\* the answer is fenced: the JSON fence and blank space before, blank space
\* and the bare fence after
IsFencedAnswer(answer) ==
    \E before \in {<< >>, << "\n" >>, << " ", "\n" >>},
       after \in {<< >>, << "\n" >>, << "\n", " " >>} :
        /\ answer.pre \in {before \o fenceJSON \o after}
        /\ answer.post \in {<< >> \o after \o fence \o before,
                            before \o fence \o after}

\* two results of parseResponse agree in all but processedAt
SameRecord(a, b) ==
    /\ a.err = "" <=> b.err = ""
    /\ a.err = ""
       => [a.invoice EXCEPT !.ProcessedAt = 0] = [b.invoice EXCEPT !.ProcessedAt = 0]

\* C11: parsing an answer wrapped in Markdown fences succeeds exactly when
\* parsing the answer unwrapped succeeds, and gives the same invoice fields
\* but for processedAt.
C11_FencesTransparent ==
    (output.done /\ IsFencedAnswer(input.response))
    => /\ SameRecord(output.result,
                     parseResponse(Plain(input.response.doc), input.ocrText, 0))
       /\ Clean(ResponseText(input.response))
          = Clean(ResponseText(Plain(input.response.doc)))

C11_Witness ==
    /\ output.done
    /\ input.response = FencedWide(GoodDoc)
    /\ output.result.err = ""
    /\ output.result.invoice.Vendor = << "A","c","m","e" >>

\* date strings no layout accepts
UnparseableDates == {<< "M","a","r","c","h"," ","1","s","t" >>, << "2","0","2","4","-","0","2","-","3","0" >>}

\* the answer with its date member left out
WithoutDate(answer) == [answer EXCEPT !.doc.date = Absent]

\* C12: an otherwise valid answer whose date string matches no layout is
\* extracted without error, with the date at its zero value and every other
\* field as if the date were absent.
C12_UnparseableDateLeftUnset ==
    (/\ output.done
     /\ input.response.doc.date.kind = "string"
     /\ input.response.doc.date.text \in UnparseableDates
     /\ parseResponse(WithoutDate(input.response), input.ocrText, 0).err = "")
    => /\ output.result.err = ""
       /\ output.result.invoice.Date = ZeroTime
       /\ [output.result.invoice EXCEPT !.ProcessedAt = 0]
          = parseResponse(WithoutDate(input.response), input.ocrText, 0).invoice

C12_Witness ==
    /\ output.done
    /\ input.response.doc.date = Str(<< "M","a","r","c","h"," ","1","s","t" >>)
    /\ output.result.err = ""
    /\ output.result.invoice.Vendor = << "A","c","m","e" >>
    /\ output.result.invoice.Total = [value |-> 1250, exp |-> 0 - 2]
    /\ Len(output.result.invoice.Items) = 2

(***************************************************************************)
(* Properties of detectMIMEType (SpecSniff).                               *)
(***************************************************************************)
StartsWith(data, head) ==
    Len(data) >= Len(head) /\ SubSeq(data, 1, Len(head)) = head

IsWebP(data) ==
    /\ Len(data) >= 12
    /\ StartsWith(data, << 82, 73, 70, 70 >>)
    /\ SubSeq(data, 9, 12) = << 87, 69, 66, 80 >>

\* C13: of the sequences of at least four bytes, those that begin FF D8 are
\* image/jpeg, those that begin 89 50 4E 47 image/png, those that begin
\* 47 49 46 image/gif; those of at least twelve bytes with RIFF at 0 and
\* WEBP at 8 are image/webp.
C13_Signatures ==
    (output.done /\ Len(input.data) >= 4)
    => /\ StartsWith(input.data, << 255, 216 >>)
          => output.mimeType = "image/jpeg"
       /\ StartsWith(input.data, << 137, 80, 78, 71 >>)
          => output.mimeType = "image/png"
       /\ StartsWith(input.data, << 71, 73, 70 >>)
          => output.mimeType = "image/gif"
       /\ IsWebP(input.data) => output.mimeType = "image/webp"

C13_Witness ==
    /\ output.done
    /\ IsWebP(input.data)
    /\ output.mimeType = "image/webp"

ImageTypes == {"image/jpeg", "image/png", "image/gif", "image/webp"}

\* the sequence begins with none of the four signatures
NoSignature(data) ==
    /\ ~StartsWith(data, << 255, 216 >>)
    /\ ~StartsWith(data, << 137, 80, 78, 71 >>)
    /\ ~StartsWith(data, << 71, 73, 70 >>)
    /\ ~IsWebP(data)

\* C19: a sequence that matches none of the four signatures is image/jpeg
\* whatever its length, and the result is always one of image/jpeg,
\* image/png, image/gif and image/webp.
C19_DefaultsToJPEG ==
    output.done
    => /\ output.mimeType \in ImageTypes
       /\ NoSignature(input.data) => output.mimeType = "image/jpeg"

(***************************************************************************)
(* Properties of Extract called twice (SpecTwice).                         *)
(***************************************************************************)
\* both calls failed with the same error, or both gave invoices equal in
\* all but processedAt
SameOutcome(a, b) ==
    /\ a.err = b.err
    /\ a.err = ""
       => [a.invoice EXCEPT !.ProcessedAt = 0] = [b.invoice EXCEPT !.ProcessedAt = 0]

\* the stub answers every prompt alike
IsConstantStub(stub) == \A p, q \in DOMAIN stub : stub[p] = stub[q]

\* C14 as stated: two calls with the same OCR text, image and categories on
\* a provider that answers the same prompt alike have the same outcome.
C14_Original ==
    output.done
    => SameOutcome(output.results[1].outcome, output.results[2].outcome)

\* C14: two such calls have the same outcome when both are made in the
\* same calendar year, the year being part of the prompt, or when the
\* provider answers every prompt alike.
C14_SameYearSameOutcome ==
    (/\ output.done
     /\ \/ output.results[1].year = output.results[2].year
        \/ IsConstantStub(input.stub))
    => SameOutcome(output.results[1].outcome, output.results[2].outcome)

C14_Witness ==
    /\ output.done
    /\ output.results[1].year = output.results[2].year
    /\ ~IsConstantStub(input.stub)
    /\ output.results[2].outcome.err = ""
    /\ output.results[1].outcome.invoice.ProcessedAt
       # output.results[2].outcome.invoice.ProcessedAt

(***************************************************************************)
(* Properties of GET /health (SpecHealth).                                 *)
(***************************************************************************)
HealthAnswered ==
    output.done
    => /\ output.answer.status \in {200, 503}
       /\ output.answer.status = 200
          <=> (output.tesseractFound /\ output.imageMagickFound)
       /\ output.answer.status = 200 <=> output.answer.body.status = "healthy"
       /\ output.answer.status = 503 <=> output.answer.body.status = "degraded"

ConfiguredModel(kind) ==
    CASE kind = "openai" -> config.OpenAIModel
      [] kind = "gemini" -> config.GeminiModel
      [] kind = "ollama" -> config.OllamaModel

\* the models the constructors of providers.go fall back to
BuiltInModel(kind) ==
    CASE kind = "openai" -> "gpt-4"
      [] kind = "gemini" -> "gemini-pro"
      [] kind = "ollama" -> "mistral"

\* a provider has been constructed for the request of r
Selected(r) == loc[r].provider # NoProvider

\* the provider of r is the backend of its name, and a name that is none of
\* openai, gemini and ollama gets the error and no provider
ChosenByName(r) ==
    /\ Selected(r)
       => /\ ProviderNameOf(r) \in Supported
          /\ loc[r].provider.kind = ProviderNameOf(r)
    /\ ProviderNameOf(r) \notin Supported
       => /\ ~Selected(r)
          /\ calls[r].provider = 0
          /\ (Answered(r) /\ Reached(log[r], "preprocessed")
               /\ (Reached(log[r], "OCR-performed")
                    \/ Reached(log[r], "vision-bypass")))
             => response[r].body["error"]
                = "unsupported AI provider: " \o ProviderNameOf(r)

\* C16 as stated: the provider is chosen by name, falling back to the
\* configured default, and its model is the model of the request if that is
\* not empty, the configured model of the provider otherwise; any other
\* name is an error.
C16_Original ==
    \A r \in Workers :
        /\ ChosenByName(r)
        /\ Selected(r)
           => loc[r].provider.model
              = IF req[r].model # "" THEN req[r].model
                ELSE ConfiguredModel(loc[r].provider.kind)

\* C16: as stated, but when the request names no model and the configured
\* model of the provider is empty as well, the model is the one built into
\* the backend: gpt-4, gemini-pro or mistral.
C16_ProviderAndModel ==
    \A r \in Workers :
        /\ ChosenByName(r)
        /\ Selected(r)
           => loc[r].provider.model
              = IF req[r].model # "" THEN req[r].model
                ELSE IF ConfiguredModel(loc[r].provider.kind) # ""
                THEN ConfiguredModel(loc[r].provider.kind)
                ELSE BuiltInModel(loc[r].provider.kind)

C16_Witness ==
    \E r \in Workers :
        /\ Selected(r)
        /\ req[r].aiProvider = "" /\ req[r].model = ""
        /\ loc[r].provider = [kind |-> "gemini", model |-> "gemini-pro"]
        /\ calls[r].provider = 1

\* the stage was invoked for the request of r, the request is past it, and
\* the stage did not succeed
PreprocessFailed(r) ==
    /\ calls[r].preprocessor = 1
    /\ pc[r] \in {"respond", "responded"}
    /\ ~Reached(log[r], "preprocessed")

RecognitionFailed(r) ==
    /\ calls[r].recognizer = 1
    /\ pc[r] \in {"respond", "responded"}
    /\ ~Reached(log[r], "OCR-performed")

\* C17: the preprocessor, the recognizer and the AI provider are each invoked
\* at most once per request; after a preprocessing failure neither the
\* recognizer nor the provider is invoked, and after a recognition failure
\* the provider is not invoked.
C17_SingleAttempt ==
    \A r \in Workers :
        /\ calls[r].preprocessor <= 1
        /\ calls[r].recognizer <= 1
        /\ calls[r].provider <= 1
        /\ PreprocessFailed(r)
           => calls[r].recognizer = 0 /\ calls[r].provider = 0
        /\ RecognitionFailed(r) => calls[r].provider = 0
        /\ (calls[r].provider = 1 /\ pc[r] \in {"respond", "responded"})
           => calls[r].preprocessor = 1

C17_Witness ==
    \E r \in Workers :
        /\ RecognitionFailed(r)
        /\ Answered(r)
        /\ response[r].body["success"] = FALSE
        /\ calls[r] = [NoCalls EXCEPT !.preprocessor = 1, !.recognizer = 1]

\* what remains of the image argument after its data-URI prefix
PayloadOf(image) ==
    IF HasPrefix(image, DataURIPrefix)
    THEN SubSeq(image, Len(DataURIPrefix) + 1, Len(image))
    ELSE image

\* C18: when an image is supplied to the Gemini backend, the image part it
\* sends is the binary obtained by base64-decoding the payload that remains
\* after the data-URI prefix, and the MIME type is sniffed from those decoded
\* bytes, so that a preprocessed PNG is labelled image/png.
C18_GeminiImagePart ==
    \A r \in Workers :
        (loc[r].sent.made /\ loc[r].sent.provider.kind = "gemini"
         /\ loc[r].sent.image # << >>)
        => /\ loc[r].sent.blob.attached
           /\ loc[r].sent.blob.Data = StdDecode(PayloadOf(loc[r].sent.image))
           /\ loc[r].sent.blob.MIMEType
              = detectMIMEType(StdDecode(PayloadOf(loc[r].sent.image)))
           /\ loc[r].processedImage = PNGBytes
              => loc[r].sent.blob.MIMEType = "image/png"

(***************************************************************************)
(* Properties of parseResponse (SpecParse), continued.                     *)
(***************************************************************************)
March1st2024 == [ZeroTime EXCEPT !.year = 2024, !.month = 3, !.day = 1]

\* the instant each sample date denotes under the layout that accepts it;
\* the zero time for the dates no layout accepts and for no date
ExpectedDate(date) ==
    CASE date = Str(<< "2","0","2","4","-","0","3","-","0","1" >>) -> March1st2024
      [] date = Str(<< "0","1","/","0","3","/","2","0","2","4" >>) -> March1st2024
      [] date = Str(<< "2","0","2","4","-","0","3","-","0","1","T","1","0",":","3","0",":","0","0","Z" >>)
            -> [March1st2024 EXCEPT !.hour = 10, !.min = 30]
      [] OTHER -> ZeroTime

\* the layouts that accept s, in the order they are tried
Accepting(s) ==
    SelectSeq(<< "2006-01-02", "02/01/2006", "2006-01-02T15:04:05Z07:00" >>,
              LAMBDA layout :
                  CASE layout = "2006-01-02" -> ParseISODate(s).ok
                    [] layout = "02/01/2006" -> ParseDMYDate(s).ok
                    [] OTHER -> ParseRFC3339(s).ok)

\* C20: the date of the record is what the first accepting layout among
\* YYYY-MM-DD, DD/MM/YYYY and RFC3339 gives for the date field, and it is
\* the zero time exactly when the field is empty or no layout accepts it.
C20_DateLayouts ==
    (output.done /\ input.response.doc.syntax /\ output.result.err = "")
    => LET date == input.response.doc.date IN
       /\ output.result.invoice.Date = ExpectedDate(date)
       /\ output.result.invoice.Date = ZeroTime
          <=> (date.kind = "absent" \/ Accepting(date.text) = << >>)
       /\ Accepting(date.text) # << >>
          => output.result.invoice.Date
             = (CASE Head(Accepting(date.text)) = "2006-01-02"
                       -> ParseISODate(date.text).t
                  [] Head(Accepting(date.text)) = "02/01/2006"
                       -> ParseDMYDate(date.text).t
                  [] OTHER -> ParseRFC3339(date.text).t)

C20_Witness ==
    /\ output.done
    /\ input.response.doc.syntax
    /\ input.response.doc.date = Str(<< "0","1","/","0","3","/","2","0","2","4" >>)
    /\ Accepting(input.response.doc.date.text) = << "02/01/2006" >>
    /\ output.result.err = ""
    /\ output.result.invoice.Date = March1st2024

\* C21: every line item of a constructed invoice has quantity >= 0, and an
\* item whose quantity is absent from the answer gets quantity 1.
C21_QuantityDefault ==
    (output.done /\ input.response.doc.syntax /\ output.result.err = "")
    => \A i \in 1..Len(output.result.invoice.Items) :
          /\ output.result.invoice.Items[i].Quantity >= 0
          /\ input.response.doc.items.elems[i].quantity.kind = "absent"
             => output.result.invoice.Items[i].Quantity = 1

\* C22: the items of a constructed invoice are as many as the items of the
\* answer, the i-th built from the answer's i-th; an empty or absent items
\* array gives the empty sequence; the categories are those of the answer
\* in its order, all of them.
C22_ItemsAndCategories ==
    (output.done /\ input.response.doc.syntax /\ output.result.err = "")
    => LET doc     == input.response.doc
           invoice == output.result.invoice
       IN  /\ DOMAIN invoice.Items = 1..Len(doc.items.elems)
           /\ \A i \in 1..Len(doc.items.elems) :
                 /\ invoice.Items[i].Name = doc.items.elems[i].name.text
                 /\ invoice.Items[i].IsTaxed
                    = (doc.items.elems[i].isTaxed.kind = "true")
           /\ doc.items \in {NoArray, Arr(<< >>)} => invoice.Items = << >>
           /\ Len(invoice.Categories.elems) = Len(doc.categories.elems)
           /\ \A i \in 1..Len(doc.categories.elems) :
                 invoice.Categories.elems[i] = doc.categories.elems[i].text

C22_Witness ==
    /\ output.done
    /\ input.response.doc.syntax
    /\ output.result.err = ""
    /\ input.response.doc.items = Arr(<< Widget, Gadget >>)
    /\ Len(input.response.doc.categories.elems) = 3
    /\ output.result.invoice.Items[1].Name = << "W","i","d","g","e","t" >>
    /\ output.result.invoice.Items[2].Name = << "G","a","d","g","e","t" >>
    /\ output.result.invoice.Categories.elems = << << "F","o","o","d" >>, << "S","h","o","p","p","i","n","g" >>, << "T","r","a","v","e","l" >> >>

\* the answer with a total and a tax put where it has none
WithAmounts(answer) ==
    [answer EXCEPT
       !.doc.total = IF answer.doc.total = Absent THEN Str(<< "9",".","9","9" >>) ELSE answer.doc.total,
       !.doc.tax = IF answer.doc.tax = Absent THEN Str(<< "9",".","9","9" >>) ELSE answer.doc.tax]

\* C23: an answer that lacks total or tax, and is extracted without error
\* when they are put in, is extracted without error; the decimal of each
\* lacking field is zero and every other field is as with the fields put in.
C23_AbsentAmountsAreZero ==
    (/\ output.done
     /\ input.response.doc.syntax
     /\ Absent \in {input.response.doc.total, input.response.doc.tax}
     /\ parseResponse(WithAmounts(input.response), input.ocrText, 0).err = "")
    => LET with == parseResponse(WithAmounts(input.response),
                                 input.ocrText, 0).invoice
           got  == output.result.invoice
       IN  /\ output.result.err = ""
           /\ input.response.doc.total = Absent => got.Total = DecimalZero
           /\ input.response.doc.tax = Absent => got.Tax = DecimalZero
           /\ input.response.doc.total # Absent => got.Total = with.Total
           /\ input.response.doc.tax # Absent => got.Tax = with.Tax
           /\ [got EXCEPT !.Total = DecimalZero, !.Tax = DecimalZero,
                          !.ProcessedAt = 0]
              = [with EXCEPT !.Total = DecimalZero, !.Tax = DecimalZero]

C23_Witness ==
    /\ output.done
    /\ input.response.doc.syntax
    /\ input.response.doc.total = Absent
    /\ input.response.doc.tax = Absent
    /\ output.result.err = ""
    /\ output.result.invoice.Total = DecimalZero
    /\ output.result.invoice.Tax = DecimalZero
    /\ output.result.invoice.Vendor = << "A","c","m","e" >>
    /\ Len(output.result.invoice.Items) = 2

\* the members a response body can have
ResponseKeys ==
    {"success", "invoice", "error", "ocrDuration", "aiDuration",
     "totalDuration"}

\* C24: every invoice of a successful extraction has confidence 0.85, on the
\* OCR path and on the vision path, and the response carries no other
\* confidence.
C24_ConfidenceConstant ==
    \A r \in Workers :
        /\ loc[r].invoice # NoInvoice
           => loc[r].invoice.Confidence = [num |-> 85, den |-> 100]
        /\ Answered(r)
           => /\ DOMAIN response[r].body \subseteq ResponseKeys
              /\ "invoice" \in DOMAIN response[r].body
                 => response[r].body["invoice"].Confidence
                    = [num |-> 85, den |-> 100]

C24_Witness ==
    \E r \in Workers :
        /\ Answered(r)
        /\ Reached(log[r], "OCR-performed")
        /\ loc[r].ocrText # ""
        /\ "invoice" \in DOMAIN response[r].body
        /\ response[r].body["invoice"].Confidence = [num |-> 85, den |-> 100]
        /\ response[r].body["invoice"].RawText = loc[r].ocrText

\* C25: when the answer cannot be parsed as the expected JSON, no invoice is
\* returned and the error message holds the parse failure and the answer as
\* the provider returned it.
C25_ParseErrorCarriesRawText ==
    (output.done /\ Unmarshal(input.response).err # "")
    => /\ output.result.invoice = NoInvoice
       /\ output.result.err
          = "JSON parse error: " \o Unmarshal(input.response).err
            \o "\nResponse: " \o StringOf(ResponseText(input.response))

\* the stages in the order of the claim, by the names of their errors
StageOrder ==
    << "trim", "bilevel conversion", "blur", "sharpen", "enhance",
       "contrast reduction", "deskew", "scale" >>

\* how many stages apply: the halving only when scaling is requested
StagesDue == IF config.Engine = "easyocr" THEN 8 ELSE 7

\* preprocessing of the request of r ended in a failure of one of the stages
StageFailed(r) ==
    /\ loc[r].stage \in 1..StagesDue
    /\ pc[r] \in {"magick_terminate", "remove_temp", "preprocess_return",
                   "respond", "responded"}

\* C26: the stages run in the order trim, bilevel, blur, sharpen, enhance,
\* contrast reduction, deskew, and the halving only when scaling is
\* requested; a failing stage ends preprocessing with an error that names it,
\* no later stage runs and no bytes are returned; bytes are returned only
\* after every due stage, and they are not empty.
C26_StagesInOrder ==
    \A r \in Workers :
        /\ IsPrefix(loc[r].applied, SubSeq(StageOrder, 1, StagesDue))
        /\ loc[r].processedImage # << >> => Len(loc[r].applied) = StagesDue
        /\ StageFailed(r)
           => /\ Len(loc[r].applied) = loc[r].stage - 1
              /\ loc[r].processedImage = << >>
              /\ ~Reached(log[r], "preprocessed")
              /\ \E prefix \in {"", "image preprocessing failed: "} :
                    loc[r].err = prefix \o StageOrder[loc[r].stage]
                                 \o " failed: wand error"
        /\ Reached(log[r], "preprocessed")
           => /\ loc[r].processedImage # << >>
              /\ loc[r].applied = SubSeq(StageOrder, 1, StagesDue)

C26_Witness ==
    \E r \in Workers :
        /\ Answered(r)
        /\ StageFailed(r)
        /\ loc[r].applied = SubSeq(StageOrder, 1, 6)
        /\ response[r].body["error"]
           = "image preprocessing failed: deskew failed: wand error"

(***************************************************************************)
(* Properties of TesseractOCR.ExtractText (SpecOcr).                       *)
(***************************************************************************)
\* the client calls of the claim whose failure is fatal
FatalCalls == {"SetLanguage", "SetImageFromBytes", "Text"}

\* C27: a failure to set the blacklist or to compute the confidence does not
\* abort recognition, which returns the text and the duration without error;
\* a failure to set the language, to load the image or to extract the text
\* returns an error with empty text.
C27_FatalAndNonFatal ==
    output.done
    => IF input.failing \cap FatalCalls = {}
       THEN output.result
            = [text |-> input.text, duration |-> input.duration, err |-> ""]
       ELSE /\ output.result.err # ""
            /\ output.result.text = ""
            /\ output.result.duration = 0

C27_Witness ==
    /\ output.done
    /\ input.failing = {"SetVariable", "MeanTextConf"}
    /\ input.text = "ACME TOTAL 12.50"
    /\ output.result
       = [text |-> "ACME TOTAL 12.50", duration |-> input.duration, err |-> ""]

(***************************************************************************)
(* Properties of the request pipeline (Spec): the error messages.          *)
(***************************************************************************)
FailureSites ==
    {"preprocess", "ocr", "create_provider", "provider_call", "parse"}

\* what the message of a failure begins with
StagePrefix(site) ==
    CASE site = "preprocess"      -> "image preprocessing failed: "
      [] site = "ocr"             -> "OCR failed: "
      [] site = "create_provider" -> "unsupported AI provider: "
      [] site = "provider_call"   -> "AI extraction failed: AI extraction failed: "
      [] site = "parse"
           -> "AI extraction failed: failed to parse AI response: "

\* the underlying causes of the sample failures, and the unsupported names
SampleCauses ==
    {"failed to create temp file: no space",
     "failed to write temp file: disk full",
     "failed to read image: no decode delegate",
     "processed image is empty"}
    \cup {StageOrder[i] \o " failed: wand error" : i \in 1..8}
    \cup {TesseractExtractText(l, {c}, "", 0).err :
            l \in {"eng", "spa"}, c \in FatalCalls}
    \cup {k \o " API call failed: timeout" : k \in Supported}
    \cup {parseResponse(a, "", 0).err : a \in Answers \ {Plain(GoodDoc), Fenced(GoodDoc)}}
    \cup {"unsupported-xyz", "unsupported-cfg"}

\* the messages a failure at the site can give
MessagesOf(site) == {StagePrefix(site) \o c : c \in SampleCauses}

\* what the failure of the request of r wraps: the name for an unsupported
\* provider, the error of the failed call otherwise
Wrapped(r) ==
    IF loc[r].failedAt = "create_provider" THEN ProviderNameOf(r)
    ELSE loc[r].cause

\* the failure site that the counters and the stages of r show
SiteShown(r) ==
    IF PreprocessFailed(r) THEN {"preprocess"}
    ELSE IF RecognitionFailed(r) THEN {"ocr"}
    ELSE IF calls[r].provider = 1 THEN {"provider_call", "parse"}
    ELSE {"create_provider"}

\* C28: the error of the response is the prefix of the failed stage before
\* the underlying cause, or before the name of an unsupported provider, and
\* no other stage gives the same message for any cause.
C28_ErrorsNameTheStage ==
    \A r \in Workers :
        (Answered(r) /\ calls[r].preprocessor = 1
         /\ "error" \in DOMAIN response[r].body)
        => /\ loc[r].failedAt \in SiteShown(r)
           /\ Wrapped(r) \in SampleCauses
           /\ response[r].body["error"]
              = StagePrefix(loc[r].failedAt) \o Wrapped(r)
           /\ \A other \in FailureSites \ {loc[r].failedAt} :
                 response[r].body["error"] \notin MessagesOf(other)

C28_Witness ==
    \E r \in Workers :
        /\ Answered(r)
        /\ loc[r].failedAt = "parse"
        /\ calls[r].provider = 1
        /\ response[r].body["error"]
           = "AI extraction failed: failed to parse AI response: "
             \o "JSON parse error: invalid character looking for beginning of value"
             \o "\nResponse: Sorry"

(***************************************************************************)
(* Properties of the temp files (SpecTemp).                                *)
(***************************************************************************)
\* the request of r is inside PreprocessImageFromBytes with its file created
HoldsTemp(r) ==
    pc[r] \in {"write_temp", "magick_init", "read_image", "magick_stage",
               "get_blob", "magick_terminate", "remove_temp"}

TextGiven(r) == loc[r].sent.prompt.receiptText # ""

ImageGiven(r) == loc[r].sent.image # ""

\* C30 (amended): in every request that reaches the provider at most one of
\* the two inputs is given and the form field alone chooses the path: when
\* useVisionModel is "true" the image is the data URI of the processed
\* image, the prompt has no text and nothing was recognised; for any other
\* value the image is empty and the prompt holds the recognised text, which
\* is empty when the recogniser found none.
C30_InputsByPath ==
    \A r \in Workers :
        loc[r].sent.made
        => /\ loc[r].sent.prompt.receiptText = loc[r].ocrText
           /\ IF req[r].useVisionModel = "true"
              THEN /\ IsDataURIOf(loc[r].sent.image, loc[r].processedImage)
                   /\ ImageGiven(r) /\ ~TextGiven(r)
                   /\ calls[r].recognizer = 0
              ELSE /\ ~ImageGiven(r)
                   /\ calls[r].recognizer = 1
                   /\ Reached(log[r], "OCR-performed")

C30_Witness ==
    \E r \in Workers :
        /\ loc[r].sent.made
        /\ req[r].useVisionModel = "1"
        /\ TextGiven(r) /\ ~ImageGiven(r)
        /\ loc[r].sent.prompt.receiptText = "ACME TOTAL 12.50"
        /\ Answered(r)

\* C30: in every request that reaches the provider exactly one of the two
\* inputs is given: the recognised text in the prompt and no image on the
\* OCR path, the data URI of the image and no text on the vision path,
\* which is taken only when the form field useVisionModel is "true".
C30_ExactlyOneInput ==
    \A r \in Workers :
        loc[r].sent.made
        => /\ TextGiven(r) # ImageGiven(r)
           /\ ImageGiven(r) <=> req[r].useVisionModel = "true"

\* a call on the OCR path with no recognised text and no image
C30_NeitherInput ==
    \E r \in Workers :
        /\ loc[r].sent.made
        /\ req[r].useVisionModel = "1"
        /\ ~TextGiven(r) /\ ~ImageGiven(r)

====
